---- MODULE Spec2Model ----
(***************************************************************************)
(* Model of the playback engine of hummingbird (src/playback/thread.rs):   *)
(* the PlaybackThread state machine with its play queue, shuffle/repeat    *)
(* state and the command and end-of-track handlers.                        *)
(*                                                                         *)
(* Every handler of the engine is an operator from an engine record (the   *)
(* fields of PlaybackThread) to the engine record after the call, so that  *)
(* handlers calling handlers (next -> open, next -> jump, next -> stop)    *)
(* compose as in the source.  An action applies one handler to the         *)
(* current variables.                                                      *)
(***************************************************************************)
EXTENDS Integers, Sequences, FiniteSets, TLC

VARIABLES
    state,            \* PlaybackThread::state
    queue,            \* PlaybackThread::queue (paths of the QueueItemData)
    original_queue,   \* PlaybackThread::original_queue
    shuffle,          \* PlaybackThread::shuffle
    queue_next,       \* PlaybackThread::queue_next
    last_timestamp,   \* PlaybackThread::last_timestamp
    pending_reset,    \* PlaybackThread::pending_reset
    repeat,           \* PlaybackThread::repeat
    media_stream,     \* PlaybackThread::media_stream (Option: <<>> or <<m>>)
    stream,           \* PlaybackThread::stream (Option: <<>> or <<s>>)
    playback_settings,\* PlaybackThread::playback_settings
    last_volume,      \* PlaybackThread::last_volume (millionths)
    format,           \* PlaybackThread::format (Option: channels of the negotiated format)
    resampler,        \* PlaybackThread::resampler (Option: channels it was built for)
    panicked,         \* the playback thread has panicked (thread is gone)
    device,           \* the default output device of the device provider
    files,            \* the channel count of each file
    calls,            \* calls on the device made by the last watched handler run
    audio,            \* the ring buffer of the stream, its producer and its consumer
    commands_rx,      \* the commands sent and not yet received (channel, in order)
    main_loop,        \* where the playback thread is in main_loop, and what it did
    queue_lock,       \* the RwLock of PlaybackThread::queue: who holds it, what the thread does next
    observer,         \* what the controller under test watches (fixed by Init)
    emitted,          \* events sent on events_tx by the last watched handler run
    last_cmd,         \* the watched command (or decoder outcome) the last step ran
    log,              \* all events received so far by a recording controller
    models            \* the controller's models of the engine, set from the events

vars == <<state, queue, original_queue, shuffle, queue_next, last_timestamp,
          pending_reset, repeat, media_stream, stream,
          playback_settings, last_volume, format, resampler, panicked,
          device, files, calls, audio, commands_rx, main_loop, queue_lock,
          observer, emitted, last_cmd, log, models>>

----------------------------------------------------------------------------
(* Bounds of the model *)

MaxQueue == 3
MaxList == 2
MaxPosition == 6
MaxLog == 7
RingCapacity == 3
MaxFrame == 2
MaxCallback == 3
MaxSamples == 8
MaxSent == 3

(* The files the controller can name.  "A" is an ordinary file, "B" is a   *)
(* file whose container reports no frame count (no known length), so that  *)
(* duration_secs and position_secs fail on it.  Whether a file can be      *)
(* opened (it exists, its codec is supported) is decided when the engine   *)
(* opens it: the parameter ok of open.  The pos of an open file is the     *)
(* second of the track the decoder is at.  The channel count of a file is  *)
(* what its decoder reports (s.files).                                     *)
Paths == {"A", "B"}
HasLength(path) == path = "A"
Duration(path) == IF HasLength(path) THEN MaxPosition ELSE 0
Channels(s, path) == s.files[path]

Mono == 1
Stereo == 2
DefaultChannels == Stereo

(* Volumes are fixed-point numbers: a requested volume is in hundredths    *)
(* (0..100 for 0.0..1.0), a scaled volume in millionths.                   *)
Million == 1000000
LN_50 == 3912023
LINEAR_SCALING_COEFFICIENT == 295752

(* The calls of the OutputStream trait that return a Result the engine     *)
(* looks at.  A stream carries the set of the calls that fail on it.       *)
StreamCalls == {"reset", "play", "pause", "submit_frame"}
U64_MAX == 2147483647
RestartThreshold == 5

PlaybackState == {"Stopped", "Playing", "Paused"}
RepeatState == {"NotRepeating", "Repeating", "RepeatingOne"}

----------------------------------------------------------------------------
(* Helpers *)

Ev(t, v) == [type |-> t, val |-> v]

Emit(s, t, v) == [s EXCEPT !.emitted = Append(@, Ev(t, v))]

Panic(s) == [s EXCEPT !.panicked = TRUE]

Range(f) == {f[i] : i \in DOMAIN f}

Lists == UNION {[1..n -> Paths] : n \in 0..MaxList}

IsPermutation(a, b) ==
    /\ Len(a) = Len(b)
    /\ \A x \in Range(a) \cup Range(b) :
          Cardinality({i \in DOMAIN a : a[i] = x}) = Cardinality({i \in DOMAIN b : b[i] = x})

(* slice.shuffle(&mut rng()): every arrangement of the elements of seq is  *)
(* a possible result.  A draw of rng() is identified with the arrangement  *)
(* it produces.                                                            *)
Shuffles(seq) == {p \in [1..Len(seq) -> Range(seq)] : IsPermutation(p, seq)}

shuffle_slice(seq, rng) == CHOOSE p \in Shuffles(seq) : p = rng

(* iter().position(|x| x.get_path() == path): 0-based, -1 for None *)
position(seq, path) ==
    IF \E i \in DOMAIN seq : seq[i] = path
    THEN (CHOOSE i \in DOMAIN seq : seq[i] = path /\ \A j \in 1..(i - 1) : seq[j] # path) - 1
    ELSE -1

Self == [state |-> state, queue |-> queue, original_queue |-> original_queue,
         shuffle |-> shuffle, queue_next |-> queue_next,
         last_timestamp |-> last_timestamp, pending_reset |-> pending_reset,
         repeat |-> repeat, media_stream |-> media_stream, stream |-> stream,
         playback_settings |-> playback_settings,
         last_volume |-> last_volume, format |-> format, resampler |-> resampler,
         device |-> device, files |-> files,
         panicked |-> panicked, emitted |-> <<>>, calls |-> <<>>]

(* A call on the device, with its argument and result, the number of       *)
(* events sent before it and the engine state it was made in.              *)
Call(s, op, arg, ok) ==
    [s EXCEPT !.calls = Append(@, [op |-> op, arg |-> arg, ok |-> ok,
                                   at |-> Len(s.emitted), state |-> s.state])]

----------------------------------------------------------------------------
(* The handlers of PlaybackThread *)

update_ts(s) ==
    IF s.media_stream # <<>> /\ HasLength(s.media_stream[1].path)
    THEN LET timestamp == s.media_stream[1].pos
         IN IF timestamp = s.last_timestamp
            THEN s
            ELSE [Emit(s, "PositionChanged", timestamp) EXCEPT !.last_timestamp = timestamp]
    ELSE s

(* MediaProvider::open without start_playback: the stream has a format and *)
(* no decoder                                                              *)
provider_open_not_started(path) ==
    [path |-> path, pos |-> 0, pending_metadata_update |-> TRUE, eof |-> FALSE,
     started |-> FALSE]

(* MediaProvider::open and start_playback: the decoder of a file, at its   *)
(* start, with the metadata of the file not yet read by the engine and     *)
(* with packets left to read (eof: next_packet has failed, as it does from *)
(* then on).  started: the stream has its format and its decoder, which    *)
(* start_playback makes and stop_playback and close take away.             *)
provider_open(path) ==
    [path |-> path, pos |-> 0, pending_metadata_update |-> TRUE, eof |-> FALSE,
     started |-> TRUE]

(* The OutputStream calls on the stream of s (s.stream is Some) *)
StreamOk(s, op) == op \notin s.stream[1].fails

stream_play(s) ==
    Call(IF StreamOk(s, "play") THEN [s EXCEPT !.stream[1].playing = TRUE] ELSE s,
         "play", <<>>, StreamOk(s, "play"))

stream_pause(s) ==
    Call(IF StreamOk(s, "pause") THEN [s EXCEPT !.stream[1].playing = FALSE] ELSE s,
         "pause", <<>>, StreamOk(s, "pause"))

(* reset replaces the platform stream and its ring buffer by new ones *)
stream_reset(s) ==
    Call(IF StreamOk(s, "reset")
         THEN [s EXCEPT !.stream[1].playing = s.device.autostart] ELSE s,
         "reset", <<>>, StreamOk(s, "reset"))

stream_submit_frame(s) ==
    Call(s, "submit_frame", <<>>, StreamOk(s, "submit_frame"))

(* Device::open_device: the stream a device opens for a format *)
open_device(dev, channels) ==
    [channels |-> channels, volume |-> Million, playing |-> dev.autostart,
     fails |-> dev.fails]

(* recreate_stream that always opens the default format *)
recreate_stream_default_format(s, channels) ==
    LET s1 == [s EXCEPT !.stream = <<>>]
    IN IF ~s1.device.present
       THEN Call(s1, "recreate_stream", channels, FALSE)
       ELSE LET s2 == [s1 EXCEPT !.stream = <<open_device(s1.device, DefaultChannels)>>]
            IN Call([s2 EXCEPT !.stream[1].volume = s2.last_volume],
                    "recreate_stream", channels, TRUE)

(* recreate_stream that leaves the new stream at the volume it opens with *)
recreate_stream_full_volume(s, channels) ==
    LET s1 == [s EXCEPT !.stream = <<>>]
    IN IF ~s1.device.present
       THEN Call(s1, "recreate_stream", channels, FALSE)
       ELSE LET opened == IF channels # <<>> /\ (s1.device.accepts \/ channels[1] = DefaultChannels)
                          THEN channels[1] ELSE DefaultChannels
            IN Call([s1 EXCEPT !.stream = <<open_device(s1.device, opened)>>],
                    "recreate_stream", channels, TRUE)

(* recreate_stream(true, channels): channels is an Option *)
recreate_stream(s, channels) ==
    LET s1 == [s EXCEPT !.stream = <<>>]
    IN IF ~s1.device.present
       THEN Call(s1, "recreate_stream", channels, FALSE)
       ELSE LET opened == IF channels # <<>> /\ (s1.device.accepts \/ channels[1] = DefaultChannels)
                          THEN channels[1]
                          ELSE DefaultChannels
                s2 == [s1 EXCEPT !.stream = <<open_device(s1.device, opened)>>]
            IN Call([s2 EXCEPT !.stream[1].volume = s2.last_volume],
                    "recreate_stream", channels, TRUE)

(* open that announces the duration before the song *)
open_duration_first(s, path, ok) ==
    LET s1 == [s EXCEPT !.media_stream = <<>>]
        resets == s1.state = "Paused" /\ s1.stream # <<>>
        s2 == IF resets THEN stream_reset(s1) ELSE s1
        s3 == [(IF s2.stream # <<>> THEN stream_play(s2) ELSE s2) EXCEPT !.resampler = <<>>]
    IN IF ~ok THEN s3
       ELSE IF s3.stream = <<>> THEN s3
       ELSE LET recreation_required ==
                    \/ resets /\ ~StreamOk(s1, "reset")
                    \/ ~StreamOk(s2, "play")
                    \/ Channels(s3, path) # s3.stream[1].channels
                s4 == Emit(Emit(s3, "DurationChanged", Duration(path)), "SongChanged", path)
                s5 == IF recreation_required
                      THEN LET r == recreate_stream(s4, <<Channels(s4, path)>>)
                           IN IF r.stream = <<>> THEN Panic(r)
                              ELSE IF StreamOk(r, "play") THEN stream_play(r)
                              ELSE Panic(stream_play(r))
                      ELSE s4
                s6 == [s5 EXCEPT !.media_stream = <<provider_open(path)>>,
                                 !.state = "Playing"]
            IN IF s5.panicked THEN s5
               ELSE Emit(update_ts(s6), "StateChanged", "Playing")

open(s, path, ok) ==
    LET s1 == [s EXCEPT !.media_stream = <<>>]
        resets == s1.state = "Paused" /\ s1.stream # <<>>
        s2 == IF resets THEN stream_reset(s1) ELSE s1
        s3 == [(IF s2.stream # <<>> THEN stream_play(s2) ELSE s2) EXCEPT !.resampler = <<>>]
    IN IF ~ok THEN s3
       ELSE IF s3.stream = <<>> THEN s3
       ELSE LET recreation_required ==
                    \/ resets /\ ~StreamOk(s1, "reset")
                    \/ ~StreamOk(s2, "play")
                    \/ Channels(s3, path) # s3.stream[1].channels
                s4 == Emit(Emit(s3, "SongChanged", path), "DurationChanged", Duration(path))
                s5 == IF recreation_required
                      THEN LET r == recreate_stream(s4, <<Channels(s4, path)>>)
                           IN IF r.stream = <<>> THEN Panic(r)
                              ELSE IF StreamOk(r, "play") THEN stream_play(r)
                              ELSE Panic(stream_play(r))
                      ELSE s4
                s6 == [s5 EXCEPT !.media_stream = <<provider_open(path)>>,
                                 !.state = "Playing"]
            IN IF s5.panicked THEN s5
               ELSE Emit(update_ts(s6), "StateChanged", "Playing")

(* pause that sends no event *)
pause_without_event(s) ==
    IF s.state = "Playing"
    THEN LET s1 == IF s.stream # <<>> THEN stream_pause(s) ELSE s
         IN IF s.stream # <<>> /\ ~StreamOk(s, "pause") THEN Panic(s1)
            ELSE [s1 EXCEPT !.state = "Paused"]
    ELSE s

pause(s) ==
    IF s.state = "Playing"
    THEN LET s1 == IF s.stream # <<>> THEN stream_pause(s) ELSE s
         IN IF s.stream # <<>> /\ ~StreamOk(s, "pause") THEN Panic(s1)
            ELSE Emit([s1 EXCEPT !.state = "Paused"], "StateChanged", "Paused")
    ELSE s

(* play that leaves pending_reset set *)
play_keeping_pending_reset(s, ok) ==
    IF s.state = "Playing" THEN s
    ELSE IF s.state = "Paused"
    THEN LET s1 == IF s.stream # <<>> /\ s.pending_reset
                   THEN (IF StreamOk(s, "reset") THEN stream_reset(s)
                         ELSE recreate_stream(stream_reset(s), s.format))
                   ELSE s
             s2 == IF s.stream = <<>> THEN s1
                   ELSE IF s1.stream = <<>> THEN Panic(s1)
                   ELSE IF StreamOk(s1, "play") THEN stream_play(s1)
                   ELSE LET r == recreate_stream(stream_play(s1), s1.format)
                        IN IF r.stream = <<>> THEN Panic(r)
                           ELSE IF StreamOk(r, "play") THEN stream_play(r)
                           ELSE Panic(stream_play(r))
         IN IF s2.panicked THEN s2
            ELSE Emit([s2 EXCEPT !.state = "Playing"], "StateChanged", "Playing")
    ELSE IF s.queue # <<>>
    THEN [Emit(open(s, s.queue[1], ok), "QueuePositionChanged", 0) EXCEPT !.queue_next = 1]
    ELSE s

play(s, ok) ==
    IF s.state = "Playing" THEN s
    ELSE IF s.state = "Paused"
    THEN LET s1 == IF s.stream # <<>> /\ s.pending_reset
                   THEN [(IF StreamOk(s, "reset") THEN stream_reset(s)
                          ELSE recreate_stream(stream_reset(s), s.format))
                         EXCEPT !.pending_reset = FALSE]
                   ELSE s
             s2 == IF s.stream = <<>> THEN s1
                   ELSE IF s1.stream = <<>> THEN Panic(s1)
                   ELSE IF StreamOk(s1, "play") THEN stream_play(s1)
                   ELSE LET r == recreate_stream(stream_play(s1), s1.format)
                        IN IF r.stream = <<>> THEN Panic(r)
                           ELSE IF StreamOk(r, "play") THEN stream_play(r)
                           ELSE Panic(stream_play(r))
         IN IF s2.panicked THEN s2
            ELSE Emit([s2 EXCEPT !.state = "Playing"], "StateChanged", "Playing")
    ELSE IF s.queue # <<>>
    THEN [Emit(open(s, s.queue[1], ok), "QueuePositionChanged", 0) EXCEPT !.queue_next = 1]
    ELSE s

(* stop that also clears the queue *)
stop_clearing_queue(s) ==
    Emit([s EXCEPT !.media_stream = <<>>, !.state = "Stopped",
                   !.queue = <<>>, !.original_queue = <<>>, !.queue_next = 0],
         "StateChanged", "Stopped")

stop(s) ==
    Emit([s EXCEPT !.media_stream = <<>>, !.state = "Stopped"], "StateChanged", "Stopped")

jump(s, index, ok) ==
    IF index < Len(s.queue)
    THEN Emit([open(s, s.queue[index + 1], ok) EXCEPT !.queue_next = index + 1],
              "QueuePositionChanged", index)
    ELSE s

(* next that treats a Next command like the end of a track *)
next_ignoring_initiator(s, user_initiated, rng, ok) ==
    IF s.repeat = "RepeatingOne"
    THEN IF s.queue_next - 1 \in 0..(Len(s.queue) - 1)
         THEN open(s, s.queue[s.queue_next], ok)
         ELSE Panic(s)
    ELSE IF s.queue_next < Len(s.queue)
    THEN LET s1 == open(s, s.queue[s.queue_next + 1], ok)
         IN [Emit(s1, "QueuePositionChanged", s.queue_next) EXCEPT !.queue_next = s.queue_next + 1]
    ELSE IF s.repeat = "Repeating"
    THEN LET s1 == IF s.shuffle
                   THEN Emit([s EXCEPT !.queue = shuffle_slice(s.queue, rng)],
                             "QueueUpdated", 0)
                   ELSE s
         IN jump(s1, 0, ok)
    ELSE stop(s)

(* next without the advance of queue_next *)
next_no_advance(s, user_initiated, rng, ok) ==
    IF s.repeat = "RepeatingOne"
    THEN IF s.queue_next - 1 \in 0..(Len(s.queue) - 1)
         THEN open(s, s.queue[s.queue_next], ok)
         ELSE Panic(s)
    ELSE IF s.queue_next < Len(s.queue)
    THEN LET s1 == open(s, s.queue[s.queue_next + 1], ok)
         IN Emit(s1, "QueuePositionChanged", s.queue_next)
    ELSE IF ~user_initiated
    THEN IF s.repeat = "Repeating"
         THEN jump(s, 0, ok)
         ELSE stop(s)
    ELSE s

next(s, user_initiated, rng, ok) ==
    IF s.repeat = "RepeatingOne"
    THEN IF s.queue_next - 1 \in 0..(Len(s.queue) - 1)
         THEN open(s, s.queue[s.queue_next], ok)
         ELSE Panic(s)
    ELSE IF s.queue_next < Len(s.queue)
    THEN LET s1 == open(s, s.queue[s.queue_next + 1], ok)
         IN [Emit(s1, "QueuePositionChanged", s.queue_next) EXCEPT !.queue_next = s.queue_next + 1]
    ELSE IF ~user_initiated
    THEN IF s.repeat = "Repeating"
         THEN LET s1 == IF s.shuffle
                        THEN Emit([s EXCEPT !.queue = shuffle_slice(s.queue, rng)],
                                  "QueueUpdated", 0)
                        ELSE s
              IN jump(s1, 0, ok)
         ELSE stop(s)
    ELSE s

seek(s, timestamp) ==
    IF s.media_stream # <<>>
    THEN update_ts([s EXCEPT !.media_stream[1].pos = timestamp, !.pending_reset = TRUE])
    ELSE s

previous(s, ok) ==
    IF s.state = "Playing" /\ s.playback_settings.prev_track_jump_first
       /\ s.last_timestamp > RestartThreshold
    THEN seek(s, 0)
    ELSE IF s.state = "Stopped" /\ s.queue # <<>>
    THEN LET s1 == open([s EXCEPT !.queue_next = Len(s.queue)], s.queue[Len(s.queue)], ok)
         IN Emit(s1, "QueuePositionChanged", s1.queue_next - 1)
    ELSE IF s.queue_next > 1
    THEN IF s.queue_next - 2 >= Len(s.queue)
         THEN Panic(s)
         ELSE LET s1 == Emit(s, "QueuePositionChanged", s.queue_next - 2)
              IN open([s1 EXCEPT !.queue_next = s.queue_next - 1], s.queue[s.queue_next - 1], ok)
    ELSE s

(* queue that does not record the item in original_queue *)
queue_item_forgetting_original(s, item, ok) ==
    LET pre_len == Len(s.queue)
        s1 == [s EXCEPT !.queue = Append(@, item)]
        s3 == IF s1.state = "Stopped"
              THEN Emit([open(s1, item, ok) EXCEPT !.queue_next = pre_len + 1],
                        "QueuePositionChanged", pre_len)
              ELSE s1
    IN Emit(s3, "QueueUpdated", 0)

(* queue that sets queue_next to 1 when it starts the item *)
queue_item_first(s, item, ok) ==
    LET pre_len == Len(s.queue)
        s1 == [s EXCEPT !.queue = Append(@, item)]
        s2 == IF s1.shuffle THEN [s1 EXCEPT !.original_queue = Append(@, item)] ELSE s1
        s3 == IF s2.state = "Stopped"
              THEN Emit([open(s2, item, ok) EXCEPT !.queue_next = 1],
                        "QueuePositionChanged", pre_len)
              ELSE s2
    IN Emit(s3, "QueueUpdated", 0)

queue_item(s, item, ok) ==
    LET pre_len == Len(s.queue)
        s1 == [s EXCEPT !.queue = Append(@, item)]
        s2 == IF s1.shuffle THEN [s1 EXCEPT !.original_queue = Append(@, item)] ELSE s1
        s3 == IF s2.state = "Stopped"
              THEN Emit([open(s2, item, ok) EXCEPT !.queue_next = pre_len + 1],
                        "QueuePositionChanged", pre_len)
              ELSE s2
    IN Emit(s3, "QueueUpdated", 0)

queue_list(s, paths, rng, ok) ==
    LET pre_len == Len(s.queue)
        s1 == IF s.shuffle
              THEN [s EXCEPT !.queue = @ \o shuffle_slice(paths, rng),
                             !.original_queue = @ \o paths]
              ELSE [s EXCEPT !.queue = @ \o paths]
        s2 == IF s1.state = "Stopped" /\ paths # <<>>
              THEN Emit([open(s1, paths[1], ok) EXCEPT !.queue_next = pre_len + 1],
                        "QueuePositionChanged", pre_len)
              ELSE s1
    IN Emit(s2, "QueueUpdated", 0)

(* jump_unshuffled that takes the index in the shuffled queue *)
jump_unshuffled_as_jump(s, index, ok) == jump(s, index, ok)

jump_unshuffled(s, index, ok) ==
    IF ~s.shuffle THEN jump(s, index, ok)
    ELSE IF index >= Len(s.original_queue) THEN Panic(s)
    ELSE LET pos == position(s.queue, s.original_queue[index + 1])
         IN IF pos >= 0 THEN jump(s, pos, ok) ELSE s

(* replace_queue that leaves the original queue when shuffle is on *)
replace_queue_shuffled_only(s, paths, rng, ok) ==
    LET s1 == [s EXCEPT !.queue = IF s.shuffle THEN shuffle_slice(paths, rng) ELSE paths]
    IN Emit(jump([s1 EXCEPT !.queue_next = 0], 0, ok), "QueueUpdated", 0)

replace_queue(s, paths, rng, ok) ==
    LET s1 == IF s.shuffle
              THEN [s EXCEPT !.queue = shuffle_slice(paths, rng), !.original_queue = paths]
              ELSE [s EXCEPT !.queue = paths]
    IN Emit(jump([s1 EXCEPT !.queue_next = 0], 0, ok), "QueueUpdated", 0)

(* clear_queue that leaves queue_next *)
clear_queue_keeping_next(s) ==
    Emit(Emit([s EXCEPT !.queue = <<>>, !.original_queue = <<>>],
              "QueuePositionChanged", 0), "QueueUpdated", 0)

clear_queue(s) ==
    Emit(Emit([s EXCEPT !.queue = <<>>, !.original_queue = <<>>, !.queue_next = 0],
              "QueuePositionChanged", 0), "QueueUpdated", 0)

(* toggle_shuffle that keeps only the unplayed tail as original_queue *)
toggle_shuffle_tail_only(s, rng) ==
    IF s.shuffle
    THEN IF s.queue_next > 0 /\ (s.queue_next > Len(s.queue)
                                  \/ position(s.original_queue, s.queue[s.queue_next]) < 0)
         THEN Panic(s)
         ELSE LET index == IF s.queue_next > 0
                           THEN position(s.original_queue, s.queue[s.queue_next])
                           ELSE 0
                  s1 == [s EXCEPT !.queue_next = IF s.queue_next > 0 THEN index + 1 ELSE @,
                                  !.queue = s.original_queue,
                                  !.original_queue = <<>>,
                                  !.shuffle = FALSE]
                  s2 == Emit(Emit(s1, "ShuffleToggled", <<FALSE, index>>), "QueueUpdated", 0)
              IN IF index # 0 THEN Emit(s2, "QueuePositionChanged", index) ELSE s2
    ELSE IF s.queue_next > Len(s.queue) THEN Panic(s)
    ELSE LET length == Len(s.queue)
             s1 == [s EXCEPT !.original_queue = SubSeq(s.queue, s.queue_next + 1, length),
                             !.queue = SubSeq(s.queue, 1, s.queue_next)
                                       \o shuffle_slice(SubSeq(s.queue, s.queue_next + 1, length), rng),
                             !.shuffle = TRUE]
         IN Emit(Emit(s1, "ShuffleToggled", <<TRUE, s.queue_next>>), "QueueUpdated", 0)

(* toggle_shuffle that puts the shuffled tail before the played prefix *)
toggle_shuffle_tail_first(s, rng) ==
    IF s.shuffle
    THEN IF s.queue_next > 0 /\ (s.queue_next > Len(s.queue)
                                  \/ position(s.original_queue, s.queue[s.queue_next]) < 0)
         THEN Panic(s)
         ELSE LET index == IF s.queue_next > 0
                           THEN position(s.original_queue, s.queue[s.queue_next])
                           ELSE 0
                  s1 == [s EXCEPT !.queue_next = IF s.queue_next > 0 THEN index + 1 ELSE @,
                                  !.queue = s.original_queue,
                                  !.original_queue = <<>>,
                                  !.shuffle = FALSE]
                  s2 == Emit(Emit(s1, "ShuffleToggled", <<FALSE, index>>), "QueueUpdated", 0)
              IN IF index # 0 THEN Emit(s2, "QueuePositionChanged", index) ELSE s2
    ELSE IF s.queue_next > Len(s.queue) THEN Panic(s)
    ELSE LET length == Len(s.queue)
             s1 == [s EXCEPT !.original_queue = s.queue,
                             !.queue = shuffle_slice(SubSeq(s.queue, s.queue_next + 1, length), rng)
                                       \o SubSeq(s.queue, 1, s.queue_next),
                             !.shuffle = TRUE]
         IN Emit(Emit(s1, "ShuffleToggled", <<TRUE, s.queue_next>>), "QueueUpdated", 0)

(* toggle_shuffle that does not relocate queue_next when turning off *)
toggle_shuffle_keep_pointer(s, rng) ==
    IF s.shuffle
    THEN IF s.queue_next > 0 /\ (s.queue_next > Len(s.queue)
                                  \/ position(s.original_queue, s.queue[s.queue_next]) < 0)
         THEN Panic(s)
         ELSE LET index == IF s.queue_next > 0
                           THEN position(s.original_queue, s.queue[s.queue_next])
                           ELSE 0
                  s1 == [s EXCEPT !.queue_next = @,
                                  !.queue = s.original_queue,
                                  !.original_queue = <<>>,
                                  !.shuffle = FALSE]
                  s2 == Emit(Emit(s1, "ShuffleToggled", <<FALSE, index>>), "QueueUpdated", 0)
              IN IF index # 0 THEN Emit(s2, "QueuePositionChanged", index) ELSE s2
    ELSE IF s.queue_next > Len(s.queue) THEN Panic(s)
    ELSE LET length == Len(s.queue)
             s1 == [s EXCEPT !.original_queue = s.queue,
                             !.queue = SubSeq(s.queue, 1, s.queue_next)
                                       \o shuffle_slice(SubSeq(s.queue, s.queue_next + 1, length), rng),
                             !.shuffle = TRUE]
         IN Emit(Emit(s1, "ShuffleToggled", <<TRUE, s.queue_next>>), "QueueUpdated", 0)

toggle_shuffle(s, rng) ==
    IF s.shuffle
    THEN IF s.queue_next > 0 /\ (s.queue_next > Len(s.queue)
                                  \/ position(s.original_queue, s.queue[s.queue_next]) < 0)
         THEN Panic(s)
         ELSE LET index == IF s.queue_next > 0
                           THEN position(s.original_queue, s.queue[s.queue_next])
                           ELSE 0
                  s1 == [s EXCEPT !.queue_next = IF s.queue_next > 0 THEN index + 1 ELSE @,
                                  !.queue = s.original_queue,
                                  !.original_queue = <<>>,
                                  !.shuffle = FALSE]
                  s2 == Emit(Emit(s1, "ShuffleToggled", <<FALSE, index>>), "QueueUpdated", 0)
              IN IF index # 0 THEN Emit(s2, "QueuePositionChanged", index) ELSE s2
    ELSE IF s.queue_next > Len(s.queue) THEN Panic(s)
    ELSE LET length == Len(s.queue)
             s1 == [s EXCEPT !.original_queue = s.queue,
                             !.queue = SubSeq(s.queue, 1, s.queue_next)
                                       \o shuffle_slice(SubSeq(s.queue, s.queue_next + 1, length), rng),
                             !.shuffle = TRUE]
         IN Emit(Emit(s1, "ShuffleToggled", <<TRUE, s.queue_next>>), "QueueUpdated", 0)

(* set_repeat that applies every request as given *)
set_repeat_as_given(s, v) ==
    Emit([s EXCEPT !.repeat = v], "RepeatChanged", v)

set_repeat(s, v) ==
    Emit([s EXCEPT !.repeat = IF v = "NotRepeating" /\ s.playback_settings.always_repeat
                              THEN "Repeating" ELSE v],
         "RepeatChanged", v)

(* f64::exp on the arguments set_volume passes for the volumes of Volumes  *)
(* (argument and result in millionths)                                     *)
exp(x) ==
    CASE x = 430322 -> 1537753
      [] x = 1956011 -> 7071064
      [] x = 3833782 -> 46237077

(* the scaling without the coefficient of the linear branch *)
volume_scale_unscaled_below(volume) ==
    IF volume >= 99 THEN Million
    ELSE IF volume > 10 THEN exp((LN_50 * volume) \div 100) \div 50
    ELSE (volume * Million) \div 100

volume_scale(volume) ==
    IF volume >= 99 THEN Million
    ELSE IF volume > 10 THEN exp((LN_50 * volume) \div 100) \div 50
    ELSE (volume * LINEAR_SCALING_COEFFICIENT) \div 100

(* set_volume that reports the volume it gave to the device *)
set_volume_reporting_scaled(s, volume) ==
    IF s.stream # <<>>
    THEN LET volume_scaled == volume_scale(volume)
         IN Emit([s EXCEPT !.last_volume = volume_scaled,
                           !.stream[1].volume = volume_scaled],
                 "VolumeChanged", volume_scaled)
    ELSE s

set_volume(s, volume) ==
    IF s.stream # <<>>
    THEN LET volume_scaled == volume_scale(volume)
         IN Emit([s EXCEPT !.last_volume = volume_scaled,
                           !.stream[1].volume = volume_scaled],
                 "VolumeChanged", volume)
    ELSE s

(* broadcast_events that reads the metadata without read_metadata()        *)
(* clearing the flag                                                       *)
broadcast_events_keeping_flag(s) ==
    IF s.media_stream = <<>> THEN s
    ELSE IF ~s.media_stream[1].pending_metadata_update THEN s
    ELSE LET path == s.media_stream[1].path
         IN Emit(Emit(s, "MetadataUpdate", path), "AlbumArtUpdate", path)

(* broadcast_events: read_metadata clears the flag metadata_updated reads  *)
broadcast_events(s) ==
    IF s.media_stream = <<>> THEN s
    ELSE IF ~s.media_stream[1].pending_metadata_update THEN s
    ELSE LET path == s.media_stream[1].path
             s1 == [s EXCEPT !.media_stream[1].pending_metadata_update = FALSE]
         IN Emit(Emit(s1, "MetadataUpdate", path), "AlbumArtUpdate", path)

toggle_play_pause(s, ok) ==
    IF s.state = "Playing" THEN pause(s)
    ELSE IF s.state = "Paused" THEN play(s, ok)
    ELSE s

(* play_audio that gives up the frame after recreating the stream *)
play_audio_without_retry(s, outcome, rng, ok) ==
    IF s.stream = <<>> \/ s.media_stream = <<>> THEN s
    ELSE IF ~s.media_stream[1].started THEN Panic(s)
    ELSE IF outcome \in {"Eof", "DecodeFatal"} THEN next(s, FALSE, rng, ok)
    ELSE IF outcome = "Unknown" THEN s
    ELSE LET m == s.media_stream[1]
             s1 == IF outcome = "FrameNextSecond"
                   THEN [s EXCEPT !.media_stream[1].pos = m.pos + 1]
                   ELSE s
             s2 == IF s1.resampler = <<>>
                   THEN [s1 EXCEPT !.format = <<s1.stream[1].channels>>,
                                   !.resampler = <<s1.stream[1].channels>>]
                   ELSE s1
             s3 == IF StreamOk(s2, "submit_frame") THEN stream_submit_frame(s2)
                   ELSE LET r == recreate_stream(stream_submit_frame(s2), s2.format)
                        IN IF r.stream = <<>> THEN Panic(r) ELSE r
         IN IF s3.panicked THEN s3 ELSE update_ts(s3)

(* play_audio: read_samples() returns a frame (of the same second of the  *)
(* track as the frame before, or of the next one), Eof, DecodeFatal or     *)
(* Unknown; on a stream without format or decoder it returns InvalidState  *)
(* or NeverStarted, on which play_audio panics.                            *)
play_audio(s, outcome, rng, ok) ==
    IF s.stream = <<>> \/ s.media_stream = <<>> THEN s
    ELSE IF ~s.media_stream[1].started THEN Panic(s)
    ELSE IF outcome \in {"Eof", "DecodeFatal"} THEN next(s, FALSE, rng, ok)
    ELSE IF outcome = "Unknown" THEN s
    ELSE LET m == s.media_stream[1]
             s1 == IF outcome = "FrameNextSecond"
                   THEN [s EXCEPT !.media_stream[1].pos = m.pos + 1]
                   ELSE s
             s2 == IF s1.resampler = <<>>
                   THEN [s1 EXCEPT !.format = <<s1.stream[1].channels>>,
                                   !.resampler = <<s1.stream[1].channels>>]
                   ELSE s1
             s3 == IF StreamOk(s2, "submit_frame") THEN stream_submit_frame(s2)
                   ELSE LET r == recreate_stream(stream_submit_frame(s2), s2.format)
                        IN IF r.stream = <<>> THEN Panic(r)
                           ELSE IF StreamOk(r, "submit_frame") THEN stream_submit_frame(r)
                           ELSE Panic(stream_submit_frame(r))
         IN IF s3.panicked THEN s3 ELSE update_ts(s3)

----------------------------------------------------------------------------
(* Actions: one command taken from the command channel and processed by    *)
(* command_intake, or one play_audio call of the main loop.  The engine    *)
(* thread takes no step once it has panicked.                              *)
(*                                                                         *)
(* The controller is an observer of the engine: for the commands in        *)
(* observer.watch it keeps the command and the events its handler sent     *)
(* (last_cmd, emitted); with observer.record it keeps every event it ever  *)
(* received (log); with observer.models it keeps its models of the engine  *)
(* up to date with the events.  The observer has no influence on the       *)
(* engine.                                                                 *)

(* The event loop of start_broadcast on one event: QueuePositionChanged    *)
(* sets the position of the queue model, RepeatChanged the repeating and   *)
(* StateChanged the playback_state of the playback info.                   *)
on_event(m, e) ==
    CASE e.type = "QueuePositionChanged" -> [m EXCEPT !.position = e.val]
      [] e.type = "RepeatChanged" -> [m EXCEPT !.repeating = e.val]
      [] e.type = "StateChanged" -> [m EXCEPT !.playback_state = e.val]
      [] OTHER -> m

RECURSIVE start_broadcast(_, _)
start_broadcast(m, events) ==
    IF events = <<>> THEN m
    ELSE start_broadcast(on_event(m, Head(events)), Tail(events))

ApplyEngine(t, cmd) ==
    /\ ~panicked
    /\ \E u \in {t} :    \* the handler runs once
         /\ state' = u.state
         /\ queue' = u.queue
         /\ original_queue' = u.original_queue
         /\ shuffle' = u.shuffle
         /\ queue_next' = u.queue_next
         /\ last_timestamp' = u.last_timestamp
         /\ pending_reset' = u.pending_reset
         /\ repeat' = u.repeat
         /\ media_stream' = u.media_stream
         /\ stream' = u.stream
         /\ playback_settings' = u.playback_settings
         /\ last_volume' = u.last_volume
         /\ format' = u.format
         /\ resampler' = u.resampler
         /\ panicked' = u.panicked
         /\ device' = u.device
         /\ files' = u.files
         /\ calls' = IF cmd \in observer.watch THEN u.calls ELSE <<>>
         /\ observer' = observer
         /\ emitted' = IF cmd \in observer.watch THEN u.emitted ELSE <<>>
         /\ last_cmd' = IF cmd \in observer.watch THEN cmd ELSE "-"
         /\ log' = IF observer.record THEN log \o u.emitted ELSE log
         /\ models' = IF observer.models THEN start_broadcast(models, u.emitted) ELSE models

Apply(t, cmd) == ApplyEngine(t, cmd) /\ UNCHANGED <<audio, commands_rx, main_loop, queue_lock>>

Play(oks) == \E ok \in oks : Apply(play(Self, ok), "Play")

Pause == Apply(pause(Self), "Pause")

TogglePlayPause == \E ok \in BOOLEAN : Apply(toggle_play_pause(Self, ok), "TogglePlayPause")

Open == \E path \in Paths, ok \in BOOLEAN : Apply(open(Self, path, ok), "Open")

Queue ==
    /\ Len(queue) < MaxQueue
    /\ \E item \in Paths, ok \in BOOLEAN : Apply(queue_item(Self, item, ok), "Queue")

QueueList ==
    \E paths \in Lists, ok \in BOOLEAN :
      /\ Len(queue) + Len(paths) <= MaxQueue
      /\ \E rng \in Shuffles(IF shuffle THEN paths ELSE <<>>) :
            Apply(queue_list(Self, paths, rng, ok), "QueueList")

NextCmd == \E ok \in BOOLEAN : Apply(next(Self, TRUE, <<>>, ok), "Next")

Previous == \E ok \in BOOLEAN : Apply(previous(Self, ok), "Previous")

ClearQueue == Apply(clear_queue(Self), "ClearQueue")

Jump == \E v \in 0..MaxQueue, ok \in BOOLEAN : Apply(jump(Self, v, ok), "Jump")

JumpUnshuffled ==
    \E v \in 0..MaxQueue, ok \in BOOLEAN : Apply(jump_unshuffled(Self, v, ok), "JumpUnshuffled")

Seek(targets) == \E v \in targets : Apply(seek(Self, v), "Seek")

ReplaceQueue ==
    \E paths \in Lists, ok \in BOOLEAN :
      \E rng \in Shuffles(IF shuffle THEN paths ELSE <<>>) :
        Apply(replace_queue(Self, paths, rng, ok), "ReplaceQueue")

Stop == Apply(stop(Self), "Stop")

(* The draws of rng() toggle_shuffle can consume in engine state s. *)
ShuffleDraws(s) ==
    Shuffles(IF ~s.shuffle /\ s.queue_next <= Len(s.queue)
             THEN SubSeq(s.queue, s.queue_next + 1, Len(s.queue)) ELSE <<>>)

ToggleShuffle ==
    \E rng \in ShuffleDraws(Self) : Apply(toggle_shuffle(Self, rng), "ToggleShuffle")

(* Two ToggleShuffle commands taken from the channel by one command_intake *)
(* call, which processes every pending command before it returns.          *)
ToggleShuffleTwice ==
    \E rng1 \in ShuffleDraws(Self) :
      LET t1 == toggle_shuffle(Self, rng1)
      IN IF t1.panicked
         THEN Apply(t1, "ToggleShuffleTwice")
         ELSE \E rng2 \in ShuffleDraws(t1) :
                Apply(toggle_shuffle(t1, rng2), "ToggleShuffleTwice")

SetRepeat == \E v \in RepeatState : Apply(set_repeat(Self, v), "SetRepeat")

(* The volumes the controller asks for, in hundredths *)
Volumes == {0, 5, 10, 11, 50, 98, 99, 100}

SetVolume == \E v \in Volumes : Apply(set_volume(Self, v), "SetVolume")

(* The main loop of the playback thread, step by step, with the channel    *)
(* the controller sends the commands on.  main_loop.pc is the call of      *)
(* main_loop the thread is at; main_loop.sent and main_loop.received are   *)
(* the commands sent by the controller and handled by command_intake so    *)
(* far, main_loop.pending the number of commands that had been sent when   *)
(* the iteration began, main_loop.frames the number of read_samples calls  *)
(* of the iteration.                                                       *)
Cmd(name, arg) == [name |-> name, arg |-> arg]

LoopCommands ==
    {Cmd("Play", "-"), Cmd("Pause", "-"), Cmd("Stop", "-"), Cmd("Next", "-"),
     Cmd("Open", "A"), Cmd("Queue", "B"), Cmd("SetRepeat", "RepeatingOne")}

(* the match of command_intake; a command carries a path (arg), an index,  *)
(* a list of paths or a volume                                             *)
Handle(s, command, rng, ok) ==
    CASE command.name = "Play" -> play(s, ok)
      [] command.name = "Pause" -> pause(s)
      [] command.name = "Stop" -> stop(s)
      [] command.name = "Next" -> next(s, TRUE, <<>>, ok)
      [] command.name = "Open" -> open(s, command.arg, ok)
      [] command.name = "Queue" -> queue_item(s, command.arg, ok)
      [] command.name = "SetRepeat" -> set_repeat(s, command.arg)
      [] command.name = "Previous" -> previous(s, ok)
      [] command.name = "ClearQueue" -> clear_queue(s)
      [] command.name = "ToggleShuffle" -> toggle_shuffle(s, rng)
      [] command.name = "Jump" -> jump(s, command.index, ok)
      [] command.name = "JumpUnshuffled" -> jump_unshuffled(s, command.index, ok)
      [] command.name = "QueueList" -> queue_list(s, command.paths, rng, ok)
      [] command.name = "ReplaceQueue" -> replace_queue(s, command.paths, rng, ok)
      [] command.name = "SetVolume" -> set_volume(s, command.volume)

(* The draws of rng() the handler of a command can consume in state s *)
Draws(s, command) ==
    CASE command.name = "ToggleShuffle" -> ShuffleDraws(s)
      [] command.name \in {"QueueList", "ReplaceQueue"} ->
           Shuffles(IF s.shuffle THEN command.paths ELSE <<>>)
      [] OTHER -> {<<>>}

(* command_intake receives one of commands and handles it; a controller    *)
(* that watches the command keeps it, with its argument, as the command    *)
(* received last.  The queue stays within MaxQueue items.                  *)
Received(commands) ==
    /\ \E command \in commands, ok \in BOOLEAN :
         \E rng \in Draws(Self, command) :
           \E t \in {Handle(Self, command, rng, ok)} :
              /\ Len(t.queue) <= MaxQueue
              /\ ApplyEngine(t, command.name)
              /\ main_loop' = [main_loop EXCEPT !.received =
                                  IF command.name \in observer.watch THEN <<command>> ELSE <<>>]
    /\ UNCHANGED <<audio, commands_rx, queue_lock>>

(* a receiver that takes the newest command *)
try_recv_newest(rx) == Len(rx)

(* Receiver::try_recv: the index in the channel of the command it returns *)
try_recv(rx) == 1

(* play_audio on a decoder that has nothing more to read once             *)
(* read_samples returned Eof: the reader is at the end of the file          *)
play_audio_to_end(s, outcome, rng, ok) ==
    IF s.stream = <<>> \/ s.media_stream = <<>> THEN s
    ELSE IF outcome = "Eof" /\ s.media_stream[1].started
    THEN next([s EXCEPT !.media_stream[1].eof = TRUE], FALSE, rng, ok)
    ELSE play_audio(s, outcome, rng, ok)

(* The controller sends one of commands *)
Controller(commands) ==
    /\ Len(main_loop.sent) < MaxSent
    /\ \E command \in commands :
          /\ commands_rx' = Append(commands_rx, command)
          /\ main_loop' = [main_loop EXCEPT !.sent = Append(@, command)]
    /\ UNCHANGED <<state, queue, original_queue, shuffle, queue_next, last_timestamp,
                   pending_reset, repeat, media_stream, stream, playback_settings,
                   last_volume, format, resampler, panicked, device, files, calls,
                   audio, queue_lock, observer, emitted, last_cmd, log, models>>

(* The controller sends a command (whether or not the thread still runs) *)
Send ==
    /\ Len(main_loop.sent) < MaxSent
    /\ \E command \in LoopCommands :
          /\ commands_rx' = Append(commands_rx, command)
          /\ main_loop' = [main_loop EXCEPT !.sent = Append(@, command)]
    /\ UNCHANGED <<state, queue, original_queue, shuffle, queue_next, last_timestamp,
                   pending_reset, repeat, media_stream, stream, playback_settings,
                   last_volume, format, resampler, panicked, device, files, calls,
                   audio, queue_lock, observer, emitted, last_cmd, log, models>>

(* command_intake: try_recv returned a command, which is handled *)
Recv(oks) ==
    /\ main_loop.pc = "command_intake"
    /\ commands_rx # <<>>
    /\ LET i == try_recv(commands_rx)
       IN /\ \E ok \in oks : ApplyEngine(Handle(Self, commands_rx[i], <<>>, ok), commands_rx[i].name)
          /\ commands_rx' = SubSeq(commands_rx, 1, i - 1) \o SubSeq(commands_rx, i + 1, Len(commands_rx))
          /\ main_loop' = [main_loop EXCEPT !.received = Append(@, commands_rx[i])]
    /\ UNCHANGED <<audio, queue_lock>>

(* command_intake: try_recv found the channel empty, the while loop ends *)
IntakeDone ==
    /\ main_loop.pc = "command_intake"
    /\ commands_rx = <<>>
    /\ ApplyEngine(Self, "command_intake")
    /\ main_loop' = [main_loop EXCEPT !.pc = "play_audio"]
    /\ UNCHANGED <<audio, commands_rx, queue_lock>>

(* main_loop: play_audio() in state Playing, sleep(10ms) otherwise.  The   *)
(* submit_frame of a frame returns only when the ring buffer took the      *)
(* whole frame, which it does while the callback of the stream runs.       *)
LoopAudio(outcomes, oks) ==
    /\ main_loop.pc = "play_audio"
    /\ IF state # "Playing"
       THEN /\ ApplyEngine(Self, "sleep")
            /\ main_loop' = [main_loop EXCEPT !.pc = "broadcast_events"]
       ELSE IF stream = <<>> \/ media_stream = <<>>
       THEN /\ ApplyEngine(play_audio(Self, "NotRead", <<>>, TRUE), "NotRead")
            /\ main_loop' = [main_loop EXCEPT !.pc = "broadcast_events"]
       ELSE /\ \E outcome \in outcomes, ok \in oks :
                 /\ outcome = "Frame" => stream[1].playing
                 /\ ApplyEngine(play_audio(Self, outcome, <<>>, ok), outcome)
            /\ main_loop' = [main_loop EXCEPT !.pc = "broadcast_events", !.frames = @ + 1]
    /\ UNCHANGED <<audio, commands_rx, queue_lock>>

(* main_loop: play_audio() in state Playing on decoders that stay at      *)
(* their end, sleep(10ms) otherwise                                         *)
LoopAudioToEnd(outcomes) ==
    /\ main_loop.pc = "play_audio"
    /\ IF state # "Playing"
       THEN /\ ApplyEngine(Self, "sleep")
            /\ main_loop' = [main_loop EXCEPT !.pc = "broadcast_events"]
       ELSE IF stream = <<>> \/ media_stream = <<>>
       THEN /\ ApplyEngine(play_audio_to_end(Self, "NotRead", <<>>, TRUE), "NotRead")
            /\ main_loop' = [main_loop EXCEPT !.pc = "broadcast_events"]
       ELSE /\ \E outcome \in IF media_stream[1].eof THEN {"Eof"} ELSE outcomes :
                 /\ outcome = "Frame" => stream[1].playing
                 /\ ApplyEngine(play_audio_to_end(Self, outcome, <<>>, TRUE), outcome)
            /\ main_loop' = [main_loop EXCEPT !.pc = "broadcast_events", !.frames = @ + 1]
    /\ UNCHANGED <<audio, commands_rx, queue_lock>>

(* main_loop: broadcast_events(), and the next iteration begins *)
LoopBroadcast ==
    /\ main_loop.pc = "broadcast_events"
    /\ ApplyEngine(broadcast_events(Self), "broadcast_events")
    /\ main_loop' = [main_loop EXCEPT !.pc = "command_intake", !.frames = 0,
                                      !.pending = Len(main_loop.sent)]
    /\ UNCHANGED <<audio, commands_rx, queue_lock>>

(* The reader-writer lock of the queue, which the UI thread reads.         *)
(* queue_lock.thread is the guard the playback thread holds ("none",       *)
(* "read" or "write"), queue_lock.ui what the UI thread does with the lock *)
(* ("idle", "waiting" for a read guard, "reading"), queue_lock.steps what  *)
(* the handler the playback thread is in has still to do: take a guard     *)
(* ("read", "write"), give it up ("drop": drop(queue), or the guard going  *)
(* out of scope at the return or while a panic unwinds), or a call that    *)
(* does I/O (IoSteps).                                                     *)
IoSteps == {"open", "stop", "seek", "stream", "read_samples", "submit_frame"}

lock_jump(s, index) ==
    <<"read">> \o (IF index < Len(s.queue) THEN <<"drop", "open">> ELSE <<"drop">>)

(* next that keeps its guard until it returns *)
lock_next_holding(s, user_initiated) ==
    <<"write">> \o
    (IF s.repeat = "RepeatingOne"
     THEN IF s.queue_next - 1 \in 0..(Len(s.queue) - 1) THEN <<"open", "drop">> ELSE <<"drop">>
     ELSE IF s.queue_next < Len(s.queue) THEN <<"open", "drop">>
     ELSE IF ~user_initiated
     THEN IF s.repeat = "Repeating" THEN lock_jump(s, 0) \o <<"drop">> ELSE <<"stop", "drop">>
     ELSE <<"drop">>)

lock_next(s, user_initiated) ==
    <<"write">> \o
    (IF s.repeat = "RepeatingOne"
     THEN IF s.queue_next - 1 \in 0..(Len(s.queue) - 1) THEN <<"drop", "open">> ELSE <<"drop">>
     ELSE IF s.queue_next < Len(s.queue) THEN <<"drop", "open">>
     ELSE IF ~user_initiated
     THEN IF s.repeat = "Repeating" THEN <<"drop">> \o lock_jump(s, 0) ELSE <<"drop", "stop">>
     ELSE <<"drop">>)

(* The guards and the I/O calls of the handler of a command, or of         *)
(* play_audio with the outcome of read_samples, in engine state s.         *)
lock_steps(s, command) ==
    CASE command.name = "Play" ->
           IF s.state = "Playing" THEN <<>>
           ELSE (IF s.state = "Paused" /\ s.stream # <<>> THEN <<"stream">> ELSE <<>>)
                \o <<"read">>
                \o (IF s.state = "Stopped" /\ s.queue # <<>> THEN <<"drop", "open">> ELSE <<"drop">>)
      [] command.name = "Next" -> lock_next(s, TRUE)
      [] command.name = "Previous" ->
           IF s.state = "Playing" /\ s.playback_settings.prev_track_jump_first
              /\ s.last_timestamp > RestartThreshold
           THEN <<"seek">>
           ELSE <<"read">> \o
                (IF (s.state = "Stopped" /\ s.queue # <<>>) \/ s.queue_next > 1
                 THEN <<"drop", "open">> ELSE <<"drop">>)
      [] command.name \in {"Queue", "QueueList"} ->
           <<"write", "drop">>
           \o (IF s.state = "Stopped" /\ command.arg # <<>> THEN <<"open">> ELSE <<>>)
      [] command.name = "Jump" -> lock_jump(s, command.arg)
      [] command.name = "JumpUnshuffled" ->
           IF ~s.shuffle THEN lock_jump(s, command.arg)
           ELSE <<"read", "drop">> \o
                (IF command.arg < Len(s.original_queue)
                    /\ position(s.queue, s.original_queue[command.arg + 1]) >= 0
                 THEN lock_jump(s, position(s.queue, s.original_queue[command.arg + 1]))
                 ELSE <<>>)
      [] command.name = "ReplaceQueue" ->
           <<"write", "drop">> \o lock_jump([s EXCEPT !.queue = command.arg], 0)
      [] command.name \in {"ClearQueue", "ToggleShuffle"} -> <<"write", "drop">>
      [] command.name = "Stop" -> <<"stop">>
      [] command.name = "Pause" -> <<"stream">>
      [] command.name = "SetRepeat" -> <<>>
      [] command.name = "Frame" -> <<"read_samples", "submit_frame">>
      [] command.name \in {"Eof", "DecodeFatal"} -> <<"read_samples">> \o lock_next(s, FALSE)

(* The playback thread enters a handler: t is the engine state the handler *)
(* leaves, and its guards and I/O calls are what the thread does next.     *)
Locked(t, command) ==
    /\ queue_lock.steps = <<>>
    /\ ApplyEngine(t, command.name)
    /\ queue_lock' = [queue_lock EXCEPT !.steps = lock_steps(Self, command)]
    /\ UNCHANGED <<audio, commands_rx, main_loop>>

(* the lists the controller queues while the lock is observed *)
LockLists == {<<>>, <<"A", "B">>}

LockedHandler ==
    \/ \E ok \in BOOLEAN : Locked(play(Self, ok), Cmd("Play", "-"))
    \/ Locked(pause(Self), Cmd("Pause", "-"))
    \/ Locked(stop(Self), Cmd("Stop", "-"))
    \/ \E ok \in BOOLEAN : Locked(next(Self, TRUE, <<>>, ok), Cmd("Next", "-"))
    \/ \E ok \in BOOLEAN : Locked(previous(Self, ok), Cmd("Previous", "-"))
    \/ /\ Len(queue) < MaxQueue
       /\ \E item \in {"A"}, ok \in BOOLEAN :
             Locked(queue_item(Self, item, ok), Cmd("Queue", <<item>>))
    \/ \E paths \in LockLists, ok \in BOOLEAN :
         /\ Len(queue) + Len(paths) <= MaxQueue
         /\ \E rng \in Shuffles(IF shuffle THEN paths ELSE <<>>) :
               Locked(queue_list(Self, paths, rng, ok), Cmd("QueueList", paths))
    \/ \E v \in 0..MaxQueue, ok \in BOOLEAN : Locked(jump(Self, v, ok), Cmd("Jump", v))
    \/ \E v \in 0..MaxQueue, ok \in BOOLEAN :
         Locked(jump_unshuffled(Self, v, ok), Cmd("JumpUnshuffled", v))
    \/ \E paths \in LockLists, ok \in BOOLEAN :
         \E rng \in Shuffles(IF shuffle THEN paths ELSE <<>>) :
           Locked(replace_queue(Self, paths, rng, ok), Cmd("ReplaceQueue", paths))
    \/ Locked(clear_queue(Self), Cmd("ClearQueue", "-"))
    \/ \E rng \in ShuffleDraws(Self) : Locked(toggle_shuffle(Self, rng), Cmd("ToggleShuffle", "-"))
    \/ \E v \in {"NotRepeating", "Repeating", "RepeatingOne"} :
         Locked(set_repeat(Self, v), Cmd("SetRepeat", v))
    \/ /\ state = "Playing" /\ stream # <<>> /\ media_stream # <<>>
       /\ \E outcome \in {"Frame", "Eof"}, ok \in BOOLEAN :
             \E rng \in Shuffles(IF shuffle /\ outcome = "Eof" THEN queue ELSE <<>>) :
               Locked(play_audio(Self, outcome, rng, ok), Cmd(outcome, "-"))

(* The playback thread takes the next step of its handler.  A guard is     *)
(* granted when the lock allows it: write() waits for the readers, and a   *)
(* thread that already holds a guard waits for itself.                     *)
LockStep ==
    /\ queue_lock.steps # <<>>
    /\ LET step == Head(queue_lock.steps)
       IN /\ step = "write" => queue_lock.thread = "none" /\ queue_lock.ui # "reading"
          /\ step = "read" => queue_lock.thread = "none"
          /\ queue_lock' = [queue_lock EXCEPT !.steps = Tail(@),
                                              !.thread = IF step \in {"read", "write"} THEN step
                                                         ELSE IF step = "drop" THEN "none"
                                                         ELSE @]
    /\ UNCHANGED <<state, queue, original_queue, shuffle, queue_next, last_timestamp,
                   pending_reset, repeat, media_stream, stream, playback_settings,
                   last_volume, format, resampler, panicked, device, files, calls,
                   audio, commands_rx, main_loop, observer, emitted, last_cmd, log, models>>

(* The UI thread asks for a read guard, gets it when the playback thread   *)
(* holds no write guard, and gives it up.                                  *)
UiReader ==
    /\ \/ queue_lock.ui = "idle" /\ queue_lock' = [queue_lock EXCEPT !.ui = "waiting"]
       \/ /\ queue_lock.ui = "waiting" /\ queue_lock.thread # "write"
          /\ queue_lock' = [queue_lock EXCEPT !.ui = "reading"]
       \/ queue_lock.ui = "reading" /\ queue_lock' = [queue_lock EXCEPT !.ui = "idle"]
    /\ UNCHANGED <<state, queue, original_queue, shuffle, queue_next, last_timestamp,
                   pending_reset, repeat, media_stream, stream, playback_settings,
                   last_volume, format, resampler, panicked, device, files, calls,
                   audio, commands_rx, main_loop, observer, emitted, last_cmd, log, models>>

(* The ring buffer between submit_frame and the callback of the platform   *)
(* stream.  audio.ring_buf is the content of the SpscRb, audio.slice what  *)
(* the submit_frame in progress has still to write, audio.data the         *)
(* destination of the last callback; audio.submitted and audio.taken are   *)
(* the samples written by submit_frame and read by the callbacks since the *)
(* ring buffer was created.  Samples are numbered as they are decoded.     *)
Silence == 0
Stale == -1

Min(a, b) == IF a < b THEN a ELSE b

create_stream_internal ==
    [ring_buf |-> <<>>, slice |-> <<>>, submitted |-> <<>>, taken |-> <<>>, data |-> <<>>]

(* util::interleave: channel-major samples to frame-major samples *)
interleave(samples) ==
    LET c == Len(samples)
        n == Len(samples[1])
    IN [i \in 1..(n * c) |-> samples[((i - 1) % c) + 1][((i - 1) \div c) + 1]]

(* Producer::write_blocking: how many elements of slice fit *)
write_blocking(a) == Min(Len(a.slice), RingCapacity - Len(a.ring_buf))

(* the output callback that leaves the rest of its destination as it was *)
output_callback_without_mute(a, size) ==
    LET written == Min(size, Len(a.ring_buf))
    IN [a EXCEPT !.ring_buf = SubSeq(@, written + 1, Len(@)),
                 !.taken = @ \o SubSeq(a.ring_buf, 1, written),
                 !.data = [i \in 1..size |-> IF i <= written THEN a.ring_buf[i] ELSE Stale]]

(* The callback given to build_output_stream, called with a destination of *)
(* size elements: cons.read(data).unwrap_or(0), then muted() for the rest. *)
output_callback(a, size) ==
    LET written == Min(size, Len(a.ring_buf))
    IN [a EXCEPT !.ring_buf = SubSeq(@, written + 1, Len(@)),
                 !.taken = @ \o SubSeq(a.ring_buf, 1, written),
                 !.data = [i \in 1..size |-> IF i <= written THEN a.ring_buf[i] ELSE Silence]]

RingStep(a, cmd) ==
    /\ audio' = a
    /\ last_cmd' = cmd
    /\ UNCHANGED <<state, queue, original_queue, shuffle, queue_next, last_timestamp,
                   pending_reset, repeat, media_stream, stream, playback_settings,
                   last_volume, format, resampler, panicked, device, files, calls,
                   commands_rx, main_loop, queue_lock, observer, emitted, log, models>>

(* submit_frame is called with a stereo frame of n samples a channel: the  *)
(* samples are interleaved (the volume is 1.0: no scaling).                *)
SubmitFrame ==
    /\ audio.slice = <<>>
    /\ \E n \in 1..MaxFrame :
          /\ Len(audio.submitted) + 2 * n <= MaxSamples
          /\ LET first == Len(audio.submitted)
                 samples == <<[k \in 1..n |-> first + k], [k \in 1..n |-> first + n + k]>>
             IN RingStep([audio EXCEPT !.slice = interleave(samples),
                                       !.submitted = @ \o interleave(samples)],
                         "submit_frame")

(* One turn of the loop of submit_frame: write_blocking waits until the    *)
(* ring buffer has room and writes what fits.                              *)
WriteBlocking ==
    /\ audio.slice # <<>>
    /\ Len(audio.ring_buf) < RingCapacity
    /\ LET written == write_blocking(audio)
       IN RingStep([audio EXCEPT !.ring_buf = @ \o SubSeq(audio.slice, 1, written),
                                 !.slice = SubSeq(@, written + 1, Len(@))],
                   "write_blocking")

(* The platform calls the callback for size samples *)
OutputCallback ==
    \E size \in 1..MaxCallback : RingStep(output_callback(audio, size), "output_callback")

(* CpalStream::reset between two submit_frame calls: a new ring buffer *)
ResetStream ==
    /\ audio.slice = <<>>
    /\ audio # create_stream_internal
    /\ RingStep(create_stream_internal, "reset")

(* The broadcast_events call that ends an iteration of the main loop *)
BroadcastEvents == Apply(broadcast_events(Self), "broadcast_events")

(* The sets of calls that fail together on a stream *)
Faults == {{}, {"reset"}, {"play"}, {"submit_frame"}, {"pause"}, StreamCalls}

(* The conditions the default device can be in: absent or present, opening *)
(* a stream for a requested channel layout or only for its default one,    *)
(* and with streams on which some calls fail.  Whether a new stream runs   *)
(* before play() is a property of the platform.                            *)
DeviceConditions(autostarts) ==
    [present : BOOLEAN, autostart : autostarts, accepts : BOOLEAN, fails : Faults]

(* The environment changes the audio hardware (a device is unplugged, the  *)
(* sound server restarts): calls on the open stream start or stop failing, *)
(* or the provider has another default device.                             *)
DeviceFault ==
    /\ ~panicked
    /\ \/ /\ stream # <<>>
          /\ \E fs \in Faults : stream' = <<[stream[1] EXCEPT !.fails = fs]>>
          /\ device' = device
       \/ /\ \E dev \in DeviceConditions({device.autostart}) : device' = dev
          /\ stream' = stream
    /\ calls' = <<>>
    /\ emitted' = <<>>
    /\ last_cmd' = "-"
    /\ UNCHANGED <<state, queue, original_queue, shuffle, queue_next, last_timestamp,
                   pending_reset, repeat, media_stream, playback_settings,
                   last_volume, format, resampler, panicked, files, observer, log, models,
                   audio, commands_rx, main_loop, queue_lock>>

(* One play_audio call of the main loop.  Without a stream or a decoder it  *)
(* returns before read_samples ("NotRead"); otherwise the decoder reports   *)
(* one of the outcomes.                                                     *)
PlayAudio(outcomes, oks) ==
    /\ state = "Playing"
    /\ IF stream = <<>> \/ media_stream = <<>>
       THEN Apply(play_audio(Self, "NotRead", <<>>, TRUE), "NotRead")
       ELSE \E outcome \in outcomes, ok \in oks :
              /\ outcome = "FrameNextSecond" => media_stream[1].pos < MaxPosition
              /\ \E rng \in Shuffles(IF shuffle /\ outcome \in {"Eof", "DecodeFatal"}
                                      THEN queue ELSE <<>>) :
                    Apply(play_audio(Self, outcome, rng, ok), outcome)

(* A device that is present, starts a stream only on play(), opens a      *)
(* stream for every channel layout, and on whose streams no call fails.    *)
SoundDevice == [present |-> TRUE, autostart |-> FALSE, accepts |-> TRUE, fails |-> {}]

StereoFiles == [path \in Paths |-> Stereo]

(* build_models: the models of the controller before any event: queue     *)
(* position 0, playback_state Stopped, repeating as the setting says       *)
build_models(settings) ==
    [position |-> 0, playback_state |-> "Stopped",
     repeating |-> IF settings.always_repeat THEN "Repeating" ELSE "NotRepeating"]

(* What start() and run() leave of the device side before the main loop:   *)
(* last_volume 1.0, no format, no resampler, and the stream that            *)
(* recreate_stream(true, None) opened on the default device dev.           *)
StartDevice(dev, fs) ==
    /\ last_volume = Million
    /\ format = <<>>
    /\ resampler = <<>>
    /\ device = dev
    /\ files = fs
    /\ stream = IF dev.present THEN <<open_device(dev, DefaultChannels)>> ELSE <<>>
    /\ calls = <<>>
    /\ audio = create_stream_internal
    /\ commands_rx = <<>>
    /\ main_loop = [pc |-> "command_intake", sent |-> <<>>, received |-> <<>>,
                    pending |-> 0, frames |-> 0]
    /\ queue_lock = [thread |-> "none", ui |-> "idle", steps |-> <<>>]

(* The state PlaybackThread::start constructs, with the stream that run()  *)
(* creates before the main loop, for a default device of devs and files    *)
(* of fss.                                                                 *)
StartOn(settings, obs, devs, fss) ==
    /\ state = "Stopped"
    /\ queue = <<>>
    /\ original_queue = <<>>
    /\ shuffle = FALSE
    /\ queue_next = 0
    /\ last_timestamp = U64_MAX
    /\ pending_reset = FALSE
    /\ playback_settings \in settings
    /\ repeat = IF playback_settings.always_repeat THEN "Repeating" ELSE "NotRepeating"
    /\ media_stream = <<>>
    /\ \E dev \in devs, fs \in fss : StartDevice(dev, fs)
    /\ panicked = FALSE
    /\ observer = obs
    /\ emitted = <<>>
    /\ last_cmd = "-"
    /\ log = <<>>
    /\ models = build_models(playback_settings)

Watching(watch) == [watch |-> watch, record |-> FALSE, models |-> FALSE]

Start(settings, watch) == StartOn(settings, Watching(watch), {SoundDevice}, {StereoFiles})

----------------------------------------------------------------------------
(* Spec: the engine under the queue, navigation and transport commands of  *)
(* the controller, where play_audio meets the end of a track or a decode   *)
(* error and seeks go to 0:00.  The frames a track delivers and its        *)
(* position influence the engine only in previous() and on the device      *)
(* side, which SpecTime and SpecDevice cover.                              *)

Settings == [always_repeat : {FALSE}, prev_track_jump_first : {FALSE}]

Init == Start(Settings, {})

Next ==
    \/ Play(BOOLEAN)
    \/ Pause
    \/ TogglePlayPause
    \/ Open
    \/ Queue
    \/ QueueList
    \/ NextCmd
    \/ Previous
    \/ ClearQueue
    \/ Jump
    \/ JumpUnshuffled
    \/ Seek({0})
    \/ ReplaceQueue
    \/ Stop
    \/ ToggleShuffle
    \/ SetRepeat
    \/ PlayAudio({"Eof", "DecodeFatal", "Unknown"}, BOOLEAN)

Spec == Init /\ [][Next]_vars

(* The engine under the commands that queue and navigate: every command    *)
(* but Seek, which at 0:00 only sets pending_reset.                        *)
NextNav ==
    \/ Play(BOOLEAN)
    \/ Pause
    \/ TogglePlayPause
    \/ Open
    \/ Queue
    \/ QueueList
    \/ NextCmd
    \/ Previous
    \/ ClearQueue
    \/ Jump
    \/ JumpUnshuffled
    \/ ReplaceQueue
    \/ Stop
    \/ ToggleShuffle
    \/ SetRepeat
    \/ PlayAudio({"Eof", "DecodeFatal", "Unknown"}, BOOLEAN)

----------------------------------------------------------------------------
(* SpecScenario: the engine is Stopped with a queue of openable files,     *)
(* repeat off and shuffle off (as after QueueList, any navigation and      *)
(* Stop); the controller sends Play once and then only listens, recording  *)
(* every event, while the tracks play to their end.                        *)

QueuesOfOpenable == UNION {[1..n -> Paths] : n \in 1..MaxQueue}

InitScenario ==
    /\ state = "Stopped"
    /\ queue \in QueuesOfOpenable
    /\ original_queue = <<>>
    /\ shuffle = FALSE
    /\ queue_next \in 0..Len(queue)
    /\ last_timestamp \in {U64_MAX, 0}
    /\ pending_reset \in BOOLEAN
    /\ playback_settings \in Settings
    /\ repeat = "NotRepeating"
    /\ media_stream = <<>>
    /\ StartDevice(SoundDevice, StereoFiles)
    /\ panicked = FALSE
    /\ observer = [watch |-> {}, record |-> TRUE, models |-> FALSE]
    /\ emitted = <<>>
    /\ last_cmd = "-"
    /\ log = <<>>
    /\ models = build_models(playback_settings)

PlayOnce == log = <<>> /\ Play({TRUE})

NextScenario ==
    \/ PlayOnce
    \/ PlayAudio({"Frame", "Eof", "DecodeFatal", "Unknown"}, {TRUE})

SpecScenario == InitScenario /\ [][NextScenario]_vars

IsSongChanged(e) == e.type = "SongChanged"

SongsPlayed == SelectSeq(log, IsSongChanged)

StoppedAnnounced(i) == log[i].type = "StateChanged" /\ log[i].val = "Stopped"

(* C1: from Stopped with a queue of n >= 1 openable items, repeat off and  *)
(* shuffle off, Play opens item 0 and sets queue_next = 1, each of the     *)
(* first n - 1 end-of-tracks opens the next item, the n-th announces       *)
(* Stopped: the SongChanged events are the queue items in queue order,     *)
(* each once, queue_next counts them while Playing, and nothing follows    *)
(* StateChanged(Stopped), which comes only after all n items.              *)
C1_ScenarioOrder ==
    /\ Len(SongsPlayed) <= Len(queue)
    /\ \A i \in DOMAIN SongsPlayed : SongsPlayed[i].val = queue[i]
    /\ log # <<>> => Len(SongsPlayed) >= 1
    /\ (log # <<>> /\ state = "Playing") => queue_next = Len(SongsPlayed)
    /\ state # "Paused"
    /\ \A i \in DOMAIN log : StoppedAnnounced(i) => i = Len(log)
    /\ (log # <<>> /\ state = "Stopped") <=>
          (log # <<>> /\ StoppedAnnounced(Len(log)) /\ Len(SongsPlayed) = Len(queue))
    /\ ~panicked

C1_Witness ==
    /\ Len(queue) = MaxQueue
    /\ queue[1] # queue[2]
    /\ state = "Stopped"
    /\ Len(SongsPlayed) = MaxQueue
    /\ StoppedAnnounced(Len(log))

----------------------------------------------------------------------------
(* The queue pointer and the open track, under Spec.                       *)

TrackOpen == state \in {"Playing", "Paused"} /\ media_stream # <<>>

(* C3: whenever a track is open (state Playing or Paused), queue_next >= 1 *)
(* and the open track is the queue item at index queue_next - 1.           *)
C3_QueueNextIsAfterOpenItem ==
    TrackOpen =>
        /\ queue_next >= 1
        /\ queue_next <= Len(queue)
        /\ queue[queue_next] = media_stream[1].path

----------------------------------------------------------------------------
(* SpecEof: the engine under every command, observed at the play_audio     *)
(* calls of the main loop: the calls in which the decoder reports the end  *)
(* of the track, and the calls that find no decoder to read from.          *)

InitEof == Start(Settings, {"Eof", "DecodeFatal", "NotRead"})

SpecEof == InitEof /\ [][Next]_vars

EndOfTrack == last_cmd' \in {"Eof", "DecodeFatal"}

(* open(path) was called and the engine goes on Playing: the file is open  *)
(* at 0:00, or it could not be opened.                                     *)
Opens(path) ==
    /\ state' = "Playing"
    /\ media_stream' # <<>> => media_stream'[1] = provider_open(path)

(* C2: when the decoder reports Eof or DecodeFatal while Playing: with     *)
(* RepeatingOne the engine re-opens the same queue index and leaves        *)
(* queue_next; otherwise with queue_next < length it opens the item at     *)
(* queue_next and increments queue_next; otherwise with Repeating it       *)
(* reshuffles the queue if shuffle is on and opens index 0 with            *)
(* queue_next = 1; otherwise it transitions to Stopped.                    *)
C2_EndOfTrackPolicy ==
    [][EndOfTrack =>
        /\ ~panicked'
        /\ IF repeat = "RepeatingOne"
           THEN /\ queue_next \in 1..Len(queue)
                /\ queue_next' = queue_next
                /\ queue' = queue
                /\ Opens(queue[queue_next])
           ELSE IF queue_next < Len(queue)
           THEN /\ queue_next' = queue_next + 1
                /\ queue' = queue
                /\ Opens(queue[queue_next + 1])
           ELSE IF repeat = "Repeating"
           THEN /\ IsPermutation(queue', queue)
                /\ ~shuffle => queue' = queue
                /\ queue' # <<>>
                /\ queue_next' = 1
                /\ Opens(queue'[1])
           ELSE /\ state' = "Stopped"
                /\ media_stream' = <<>>
                /\ queue' = queue
                /\ queue_next' = queue_next
                /\ emitted' = <<Ev("StateChanged", "Stopped")>>
      ]_vars

(* The end of a track advanced the queue to an item that could not be      *)
(* opened: the engine is Playing with no decoder.                          *)
OnFailedItem ==
    /\ last_cmd \in {"Eof", "DecodeFatal"}
    /\ state = "Playing"
    /\ media_stream = <<>>

(* C7: the engine never remains on a queue item it failed to open while    *)
(* advancing: the main loop's next play_audio call moves on to the         *)
(* following item, or to Stopped at the end of the queue.                  *)
C7_FailedOpenAdvances ==
    [][(OnFailedItem /\ last_cmd' = "NotRead") =>
          \/ state' = "Stopped"
          \/ queue_next' = queue_next + 1
      ]_vars

----------------------------------------------------------------------------
(* SpecNext: the engine under the queueing and navigating commands,        *)
(* observed at the Next commands.                                          *)

InitNext == Start(Settings, {"Next"})

SpecNext == InitNext /\ [][NextNav]_vars

(* The last queue item is the open track and repeat is off. *)
AtLastItem ==
    /\ TrackOpen
    /\ queue_next >= 1
    /\ queue_next = Len(queue)
    /\ queue[queue_next] = media_stream[1].path
    /\ repeat = "NotRepeating"

(* C4 as claimed: a Next command processed while the last queue item is    *)
(* the open track and repeat is NotRepeating transitions the engine to     *)
(* Stopped and emits StateChanged(Stopped).                                *)
C4_NextAtLastItemStops ==
    [][(last_cmd' = "Next" /\ AtLastItem) =>
          /\ state' = "Stopped"
          /\ \E i \in DOMAIN emitted' : emitted'[i] = Ev("StateChanged", "Stopped")
      ]_vars

(* C4 amended: a Next command processed while the last queue item is the   *)
(* open track and repeat is NotRepeating changes nothing: the state, the   *)
(* open track, the queue and queue_next stay as they are and no event is   *)
(* emitted.                                                                *)
C4_NextAtLastItemIsNoOp ==
    [][(last_cmd' = "Next" /\ AtLastItem) =>
          /\ state' = state
          /\ media_stream' = media_stream
          /\ queue' = queue
          /\ queue_next' = queue_next
          /\ emitted' = <<>>
          /\ ~panicked'
      ]_vars

C4_Witness ==
    /\ last_cmd = "Next"
    /\ AtLastItem
    /\ Len(queue) >= 2
    /\ state = "Playing"
    /\ emitted = <<>>

----------------------------------------------------------------------------
(* SpecStop: the engine under the queueing and navigating commands,        *)
(* observed at the Stop commands.                                          *)

InitStop == Start(Settings, {"Stop"})

SpecStop == InitStop /\ [][NextNav]_vars

(* C6 as claimed: after a Stop command is processed the queue is empty and *)
(* the state is Stopped, StateChanged(Stopped) having been emitted.        *)
C6_StopClearsQueue ==
    [][last_cmd' = "Stop" =>
          /\ queue' = <<>>
          /\ state' = "Stopped"
          /\ emitted' = <<Ev("StateChanged", "Stopped")>>
      ]_vars

(* C6 amended: after a Stop command is processed the state is Stopped,     *)
(* StateChanged(Stopped) has been emitted and the open track is closed,    *)
(* while the queue, original_queue and queue_next are left as they were.   *)
C6_StopKeepsQueue ==
    [][last_cmd' = "Stop" =>
          /\ state' = "Stopped"
          /\ emitted' = <<Ev("StateChanged", "Stopped")>>
          /\ media_stream' = <<>>
          /\ queue' = queue
          /\ original_queue' = original_queue
          /\ queue_next' = queue_next
          /\ ~panicked'
      ]_vars

C6_Witness ==
    /\ last_cmd = "Stop"
    /\ state = "Stopped"
    /\ Len(queue) = MaxQueue
    /\ queue_next >= 1
    /\ media_stream = <<>>

----------------------------------------------------------------------------
(* SpecShuffle: the engine under every command but Seek and ReplaceQueue,   *)
(* with ToggleShuffle single or as a pair, observed at the ToggleShuffle   *)
(* commands and at the commands that queue items.                          *)

InitShuffle == Start(Settings, {"ToggleShuffle", "ToggleShuffleTwice", "Queue", "QueueList"})

NextShuffle ==
    \/ Play(BOOLEAN)
    \/ Pause
    \/ TogglePlayPause
    \/ Open
    \/ Queue
    \/ QueueList
    \/ NextCmd
    \/ Previous
    \/ ClearQueue
    \/ Jump
    \/ JumpUnshuffled
    \/ Stop
    \/ ToggleShuffle
    \/ ToggleShuffleTwice
    \/ SetRepeat
    \/ PlayAudio({"Eof", "DecodeFatal", "Unknown"}, BOOLEAN)

SpecShuffle == InitShuffle /\ [][NextShuffle]_vars

IsPrefix(a, b) == Len(a) <= Len(b) /\ SubSeq(b, 1, Len(a)) = a

From(seq, k) == SubSeq(seq, k + 1, Len(seq))

(* C8: for any queue Q and played-prefix length k = queue_next with        *)
(* shuffle off, two consecutive ToggleShuffle commands restore a queue     *)
(* equal to Q as a multiset, with the same item at index k - 1, and        *)
(* shuffle is off again.                                                   *)
C8_ShuffleRoundTrip ==
    [][(last_cmd' = "ToggleShuffleTwice" /\ ~shuffle) =>
          /\ ~panicked'
          /\ IsPermutation(queue', queue)
          /\ queue_next \in 0..Len(queue)
          /\ queue_next >= 1 => queue'[queue_next] = queue[queue_next]
          /\ ~shuffle'
      ]_vars

C8_Witness ==
    /\ last_cmd = "ToggleShuffleTwice"
    /\ ~shuffle
    /\ Len(queue) = MaxQueue
    /\ queue_next = 1
    /\ queue[2] # queue[3]
    /\ Len(emitted) >= 4
    /\ emitted[1] = Ev("ShuffleToggled", <<TRUE, 1>>)

(* C9: turning shuffle on with queue Q and queue_next = k leaves the items *)
(* at indices 0..k-1 in place, rearranges the items at indices >= k as a   *)
(* permutation of that tail, stores Q as original_queue and leaves         *)
(* queue_next and the playback state unchanged.                            *)
C9_ShuffleOnKeepsPrefix ==
    [][(last_cmd' = "ToggleShuffle" /\ ~shuffle) =>
          /\ ~panicked'
          /\ shuffle'
          /\ Len(queue') = Len(queue)
          /\ SubSeq(queue', 1, queue_next) = SubSeq(queue, 1, queue_next)
          /\ IsPermutation(From(queue', queue_next), From(queue, queue_next))
          /\ original_queue' = queue
          /\ queue_next' = queue_next
          /\ state' = state
          /\ media_stream' = media_stream
      ]_vars

C9_Witness ==
    /\ last_cmd = "ToggleShuffle"
    /\ shuffle
    /\ Len(queue) = MaxQueue
    /\ queue_next = 1
    /\ queue # original_queue
    /\ state = "Playing"

(* C10: turning shuffle off replaces the queue by original_queue verbatim, *)
(* empties original_queue and sets queue_next so that queue_next - 1 is a  *)
(* position, in the restored queue, of the item that was at queue_next - 1 *)
(* before; and while shuffle is on, Queue and QueueList append their items *)
(* to original_queue behind everything that was there.                     *)
C10_ShuffleOffRestores ==
    [][/\ (last_cmd' = "ToggleShuffle" /\ shuffle) =>
            /\ ~panicked'
            /\ ~shuffle'
            /\ queue' = original_queue
            /\ original_queue' = <<>>
            /\ queue_next >= 1 =>
                  /\ queue_next <= Len(queue)
                  /\ queue_next' \in 1..Len(queue')
                  /\ queue'[queue_next'] = queue[queue_next]
            /\ queue_next = 0 => queue_next' = 0
       /\ (last_cmd' \in {"Queue", "QueueList"} /\ shuffle) =>
            /\ shuffle'
            /\ IsPrefix(original_queue, original_queue')
            /\ IsPrefix(queue, queue')
            /\ IsPermutation(From(original_queue', Len(original_queue)),
                             From(queue', Len(queue)))
      ]_vars

C10_Witness ==
    /\ last_cmd = "ToggleShuffle"
    /\ ~shuffle
    /\ original_queue = <<>>
    /\ Len(queue) = MaxQueue
    /\ queue_next = 3
    /\ TrackOpen
    /\ queue[3] = media_stream[1].path
    /\ Len(emitted) = 3
    /\ emitted[3] = Ev("QueuePositionChanged", 2)

----------------------------------------------------------------------------
(* SpecTime: the tracks play on (a frame may belong to the next second of  *)
(* the track, up to MaxPosition) and seeks go to 0:00 or to MaxPosition;   *)
(* the restart-first setting is on or off.  The controller plays, pauses,  *)
(* queues, skips, stops and seeks, and is observed at the Previous         *)
(* commands.                                                               *)

SettingsTime == [always_repeat : {FALSE}, prev_track_jump_first : BOOLEAN]

InitTime == Start(SettingsTime, {"Previous"})

NextTime ==
    \/ Play(BOOLEAN)
    \/ Pause
    \/ Queue
    \/ NextCmd
    \/ Previous
    \/ Stop
    \/ Seek({0, MaxPosition})
    \/ PlayAudio({"Frame", "FrameNextSecond", "Eof"}, BOOLEAN)

SpecTime == InitTime /\ [][NextTime]_vars

(* open(path) was called: the file is open at 0:00 and the engine is       *)
(* Playing, or it could not be opened and the state is as it was.          *)
Opened(path) ==
    IF media_stream' # <<>>
    THEN media_stream'[1] = provider_open(path) /\ state' = "Playing"
    ELSE state' = state

(* C5: Previous restarts the current track (seek to 0, same track,         *)
(* queue_next unchanged) when prev_track_jump_first is enabled and more    *)
(* than 5 seconds of the current track have elapsed; otherwise, if the     *)
(* engine is Stopped and the queue is non-empty, it opens the last item    *)
(* and sets queue_next to the queue length, and else it opens the prior    *)
(* index (queue_next - 2) and decrements queue_next (where there is a      *)
(* prior index).                                                           *)
C5_PreviousRestartsOrGoesBack ==
    [][last_cmd' = "Previous" =>
          /\ ~panicked'
          /\ IF /\ playback_settings.prev_track_jump_first
                /\ TrackOpen
                /\ media_stream[1].pos > RestartThreshold
             THEN /\ media_stream' = <<[media_stream[1] EXCEPT !.pos = 0]>>
                  /\ queue_next' = queue_next
                  /\ state' = state
             ELSE IF state = "Stopped" /\ queue # <<>>
             THEN /\ queue_next' = Len(queue)
                  /\ Opened(queue[Len(queue)])
             ELSE queue_next > 1 =>
                  /\ queue_next - 1 <= Len(queue)
                  /\ queue_next' = queue_next - 1
                  /\ Opened(queue[queue_next - 1])
      ]_vars

----------------------------------------------------------------------------
(* SpecNav: the engine under the commands that queue and navigate.  The    *)
(* original queue.                                                         *)

SpecNav == Init /\ [][NextNav]_vars

(* C11: in every reachable state, original_queue is empty while shuffle is *)
(* off, and while shuffle is on the queue is a permutation of              *)
(* original_queue (the same items, each as often).                         *)
C11_OriginalQueueIffShuffle ==
    /\ ~shuffle => original_queue = <<>>
    /\ shuffle => IsPermutation(queue, original_queue)

C11_Witness ==
    /\ shuffle
    /\ Len(queue) = MaxQueue
    /\ queue # original_queue
    /\ queue_next = 1
    /\ queue[1] # original_queue[1]

----------------------------------------------------------------------------
(* SpecRepeat: the engine started with the always_repeat setting active,   *)
(* under the commands that play, queue, navigate and set the repeat mode,  *)
(* observed at the SetRepeat commands.                                     *)

SettingsRepeat == [always_repeat : {TRUE}, prev_track_jump_first : {FALSE}]

InitRepeat == Start(SettingsRepeat, {"SetRepeat"})

NextRepeat ==
    \/ Play(BOOLEAN)
    \/ Pause
    \/ Open
    \/ Queue
    \/ QueueList
    \/ NextCmd
    \/ Previous
    \/ ClearQueue
    \/ Jump
    \/ Stop
    \/ ToggleShuffle
    \/ SetRepeat
    \/ PlayAudio({"Eof", "DecodeFatal", "Unknown"}, BOOLEAN)

SpecRepeat == InitRepeat /\ [][NextRepeat]_vars

(* The request of the SetRepeat command just processed: the value that     *)
(* RepeatChanged carries.                                                  *)
Requested == emitted'[1].val

(* C12: with always_repeat active the repeat mode is never NotRepeating:   *)
(* it starts as Repeating, SetRepeat(NotRepeating) is coerced to           *)
(* Repeating, and SetRepeat(Repeating) and SetRepeat(RepeatingOne) are     *)
(* applied as given.                                                       *)
C12_AlwaysRepeatNeverOff ==
    /\ [](playback_settings.always_repeat => repeat # "NotRepeating")
    /\ [][(last_cmd' = "SetRepeat" /\ playback_settings.always_repeat) =>
            /\ Len(emitted') = 1
            /\ emitted'[1].type = "RepeatChanged"
            /\ repeat' = IF Requested = "NotRepeating" THEN "Repeating" ELSE Requested
         ]_vars

C12_Witness ==
    /\ playback_settings.always_repeat
    /\ last_cmd = "SetRepeat"
    /\ emitted = <<Ev("RepeatChanged", "NotRepeating")>>
    /\ repeat = "Repeating"
    /\ state = "Playing"

----------------------------------------------------------------------------
(* SpecVolume: the controller sets the volume while it queues, plays and   *)
(* pauses, on a machine with a sound device or without one (then run()     *)
(* could open no stream).                                                  *)

NoDevice == [present |-> FALSE, autostart |-> FALSE, accepts |-> FALSE, fails |-> {}]

InitVolume == StartOn(Settings, Watching({"SetVolume"}), {SoundDevice, NoDevice}, {StereoFiles})

NextVolume ==
    \/ SetVolume
    \/ Play(BOOLEAN)
    \/ Pause
    \/ Queue
    \/ NextCmd
    \/ Stop
    \/ PlayAudio({"Frame", "Eof"}, BOOLEAN)

SpecVolume == InitVolume /\ [][NextVolume]_vars

(* The scaled volume (millionths) the device is to get for a requested     *)
(* volume v (hundredths), to the millionth.                                *)
IsScaled(v, scaled) ==
    IF v >= 99 THEN scaled = Million
    ELSE IF v > 10 THEN scaled \in {exp((LN_50 * v) \div 100) \div 50 + d : d \in {-1, 0, 1}}
    ELSE scaled \in {(v * 2957515) \div 1000 + d : d \in {-1, 0, 1}}

(* C13: SetVolume(v) with a device stream gives the stream the scaled      *)
(* volume (1.0 for v >= 0.99, exp(ln(50) v)/50 for 0.1 < v < 0.99,         *)
(* v * 0.2957515 otherwise) and sends exactly VolumeChanged(v) with the    *)
(* raw v; SetVolume(0.05) gives the device about 0.01479.                  *)
C13_SetVolumeScalesDeviceOnly ==
    [][(last_cmd' = "SetVolume" /\ stream # <<>>) =>
          /\ Len(emitted') = 1
          /\ emitted'[1].type = "VolumeChanged"
          /\ emitted'[1].val \in Volumes
          /\ stream' # <<>>
          /\ IsScaled(emitted'[1].val, stream'[1].volume)
          /\ emitted'[1].val = 5 => stream'[1].volume \in 14785..14795
      ]_vars

C13_Witness ==
    /\ last_cmd = "SetVolume"
    /\ emitted = <<Ev("VolumeChanged", 5)>>
    /\ stream # <<>>
    /\ stream[1].volume = 14787
    /\ state = "Playing"

----------------------------------------------------------------------------
(* SpecOpenDevice: the controller opens stereo and mono files, pauses,     *)
(* resumes, seeks and stops while the audio hardware changes under the     *)
(* engine; the controller watches Open.                                    *)

MixedFiles == [path \in Paths |-> IF path = "B" THEN Mono ELSE Stereo]

InitOpenDevice ==
    StartOn(Settings, Watching({"Open"}), DeviceConditions({FALSE}), {MixedFiles})

NextDevice ==
    \/ Open
    \/ Play(BOOLEAN)
    \/ Pause
    \/ Seek({0})
    \/ Stop
    \/ PlayAudio({"Frame", "Eof"}, BOOLEAN)
    \/ DeviceFault

SpecOpenDevice == InitOpenDevice /\ [][NextDevice]_vars

(* The step is an Open of a file that could be opened, with a stream. *)
OpenedFile == last_cmd' = "Open" /\ emitted' # <<>> /\ emitted'[1].type = "SongChanged"

OpenedPath == emitted'[1].val

(* The decoder of the opened file and the stream disagree on the channels *)
ChannelMismatch == files[OpenedPath] # stream[1].channels

(* Call i of the step was made before the state was assigned by open and   *)
(* before StateChanged(Playing) was sent.                                  *)
BeforePlaying(i) ==
    /\ calls'[i].state = state
    /\ \A k \in DOMAIN emitted' :
          emitted'[k] = Ev("StateChanged", "Playing") => calls'[i].at < k

(* The step recreated the stream asking for the decoder's layout and       *)
(* started the new stream, before the engine was Playing.                  *)
RecreatedAndStarted ==
    \E i, j \in DOMAIN calls' :
      /\ i < j
      /\ calls'[i] .op = "recreate_stream" /\ calls'[i].arg = <<files[OpenedPath]>>
      /\ calls'[j].op = "play" /\ calls'[j].ok
      /\ \A k \in (i + 1)..(j - 1) : calls'[k].op # "recreate_stream"
      /\ BeforePlaying(i) /\ BeforePlaying(j)
      /\ stream' # <<>> /\ stream'[1].playing

NoRecreation == \A i \in DOMAIN calls' : calls'[i].op # "recreate_stream"

InPlaceSucceeded == \A i \in DOMAIN calls' : calls'[i].op \in {"reset", "play"} => calls'[i].ok

(* C14 as claimed: when open() finds the decoder's channel count different *)
(* from the stream's, the stream is recreated with the decoder's channel   *)
(* layout and started before the state becomes Playing and before          *)
(* StateChanged(Playing); with equal counts and a successful in-place      *)
(* reset/play the stream is not recreated.                                 *)
C14_MismatchRecreatesWithDecoderLayout ==
    [][(OpenedFile /\ ~panicked') =>
          /\ state' = "Playing"
          /\ ChannelMismatch =>
                /\ RecreatedAndStarted
                /\ stream'[1].channels = files[OpenedPath]
          /\ (~ChannelMismatch /\ InPlaceSucceeded) => NoRecreation /\ stream'[1].channels = stream[1].channels
      ]_vars

(* C14: the same, where the recreated stream has the decoder's channel     *)
(* layout if the device opens a stream for it, and the default layout of   *)
(* the device otherwise.                                                   *)
C14_MismatchRecreatesIfSupported ==
    [][(OpenedFile /\ ~panicked') =>
          /\ state' = "Playing"
          /\ ChannelMismatch =>
                /\ RecreatedAndStarted
                /\ stream'[1].channels =
                      IF device.accepts \/ files[OpenedPath] = DefaultChannels
                      THEN files[OpenedPath] ELSE DefaultChannels
          /\ (~ChannelMismatch /\ InPlaceSucceeded) => NoRecreation /\ stream'[1].channels = stream[1].channels
      ]_vars

(* an Open of the mono file on a stereo stream, from Paused *)
C14_Witness ==
    /\ last_cmd = "Open"
    /\ state = "Playing"
    /\ media_stream # <<>> /\ media_stream[1].path = "B"
    /\ stream # <<>> /\ stream[1].channels = Mono /\ stream[1].playing
    /\ Len(calls) = 4
    /\ calls[1].op = "reset" /\ calls[1].state = "Paused"
    /\ calls[3].op = "recreate_stream" /\ calls[3].arg = <<Mono>> /\ calls[3].at = 2
    /\ calls[4].op = "play" /\ calls[4].ok /\ calls[4].state = "Paused"

----------------------------------------------------------------------------
(* SpecOpenEvents: a recording controller opens, queues and plays files    *)
(* that can or cannot be opened, on any device, and the main loop          *)
(* broadcasts the metadata; the run ends when the controller has recorded  *)
(* MaxLog events.                                                          *)

InitOpenEvents ==
    StartOn(Settings,
            [watch |-> {"Open", "Play", "Queue", "Next", "Eof"}, record |-> TRUE,
             models |-> FALSE],
            DeviceConditions({FALSE}), {MixedFiles})

LogRoom == Len(log) < MaxLog

NextOpenEvents ==
    \/ LogRoom /\ Open
    \/ LogRoom /\ Queue
    \/ LogRoom /\ Play(BOOLEAN)
    \/ LogRoom /\ Pause
    \/ LogRoom /\ NextCmd
    \/ LogRoom /\ Stop
    \/ LogRoom /\ PlayAudio({"Frame", "Eof"}, BOOLEAN)
    \/ LogRoom /\ BroadcastEvents

SpecOpenEvents == InitOpenEvents /\ [][NextOpenEvents]_vars

IsOpenEvent(e) ==
    \/ e.type \in {"SongChanged", "DurationChanged", "MetadataUpdate", "AlbumArtUpdate"}
    \/ e = Ev("StateChanged", "Playing")

OpenEvents == SelectSeq(emitted', IsOpenEvent)

(* The watched step certainly ran open(): an Open command, or Play in      *)
(* state Stopped with a queue.                                             *)
RanOpen ==
    \/ last_cmd' = "Open"
    \/ last_cmd' = "Play" /\ state = "Stopped" /\ queue # <<>>

(* The events for the track of log[i] precede log[i]: SongChanged,         *)
(* DurationChanged and later StateChanged(Playing), and no other           *)
(* SongChanged since.                                                      *)
AnnouncedBefore(i) ==
    \E j \in 1..(i - 1) :
      /\ log[j] = Ev("SongChanged", log[i].val)
      /\ log[j + 1] = Ev("DurationChanged", Duration(log[i].val))
      /\ \E k \in (j + 2)..(i - 1) : log[k] = Ev("StateChanged", "Playing")
      /\ \A m \in (j + 1)..i : log[m].type # "SongChanged"

(* C15: a successful open sends SongChanged, DurationChanged (0 for an      *)
(* unknown duration) and StateChanged(Playing) in this order and makes the *)
(* state Playing; MetadataUpdate and AlbumArtUpdate of a track are sent    *)
(* only after these three; a failed open sends none of the five events and *)
(* leaves the state unchanged.                                             *)
C15_OpenEventOrder ==
    /\ [](\A i \in DOMAIN log :
            log[i].type \in {"MetadataUpdate", "AlbumArtUpdate"} => AnnouncedBefore(i))
    /\ [][(last_cmd' \in observer.watch /\ ~panicked') =>
            IF \E e \in Range(emitted') : e.type = "SongChanged"
            THEN \E path \in Paths :
                   /\ OpenEvents = <<Ev("SongChanged", path),
                                     Ev("DurationChanged", IF HasLength(path) THEN Duration(path) ELSE 0),
                                     Ev("StateChanged", "Playing")>>
                   /\ state' = "Playing"
                   /\ media_stream' = <<provider_open(path)>>
            ELSE RanOpen => OpenEvents = <<>> /\ state' = state
         ]_vars

C15_Witness ==
    /\ last_cmd = "-"
    /\ Len(log) >= 5
    /\ SubSeq(log, Len(log) - 4, Len(log)) =
          <<Ev("SongChanged", "B"), Ev("DurationChanged", 0), Ev("StateChanged", "Playing"),
            Ev("MetadataUpdate", "B"), Ev("AlbumArtUpdate", "B")>>
    /\ media_stream = <<[provider_open("B") EXCEPT !.pending_metadata_update = FALSE]>>

----------------------------------------------------------------------------
(* SpecSubmit: as SpecOpenDevice, the controller watching the play_audio   *)
(* calls that decode a frame.                                              *)

InitSubmit ==
    StartOn(Settings, Watching({"Frame"}), DeviceConditions({FALSE}), {MixedFiles})

SpecSubmit == InitSubmit /\ [][NextDevice]_vars

IsSubmit(c) == c.op = "submit_frame"

IsRecreate(c) == c.op = "recreate_stream"

Submits == SelectSeq(calls', IsSubmit)

Recreations == SelectSeq(calls', IsRecreate)

(* The step decoded a frame and its submit_frame failed *)
SubmitFailed == last_cmd' = "Frame" /\ Submits # <<>> /\ ~Submits[1].ok

(* The stream was recreated once, after the failed submit_frame, with the  *)
(* channel layout of the negotiated format.                                *)
RecreatedForFormat ==
    /\ Len(Recreations) = 1
    /\ format' # <<>>
    /\ calls'[2] = Recreations[1]
    /\ calls'[2].arg = format'

(* The frame was resubmitted once, and accepted or the engine terminated *)
ResubmittedOnce ==
    /\ Len(Submits) = 2
    /\ calls'[3] = Submits[2]
    /\ IF Submits[2].ok
       THEN ~panicked' /\ state' = "Playing" /\ media_stream' # <<>>
       ELSE panicked'

----------------------------------------------------------------------------
(* SpecResume: as SpecOpenDevice with Previous and prev_track_jump_first   *)
(* set, the controller watching Play, Seek and Previous.                   *)

SettingsRestart == [always_repeat : {FALSE}, prev_track_jump_first : {TRUE}]

InitResume ==
    StartOn(SettingsRestart, Watching({"Play", "Seek", "Previous"}),
            DeviceConditions({FALSE}), {MixedFiles})

NextResume ==
    \/ Open
    \/ Play(BOOLEAN)
    \/ Pause
    \/ Seek({0})
    \/ Previous
    \/ Stop
    \/ PlayAudio({"Frame", "Eof"}, BOOLEAN)
    \/ DeviceFault

SpecResume == InitResume /\ [][NextResume]_vars

(* The step is a Play command taken in state Paused with a stream *)
Resumes == last_cmd' = "Play" /\ state = "Paused" /\ stream # <<>>

IsPlay(c) == c.op = "play"

Plays == SelectSeq(calls', IsPlay)

(* The index in calls' of the first play() *)
FirstPlay == CHOOSE i \in DOMAIN calls' : IsPlay(calls'[i]) /\ \A k \in 1..(i - 1) : ~IsPlay(calls'[k])

(* A pending reset is performed before play() and cleared; without one     *)
(* the stream is not reset.                                                *)
ResetBeforePlay ==
    IF pending_reset
    THEN calls'[1].op = "reset" /\ Plays # <<>> /\ ~pending_reset'
    ELSE Plays # <<>> /\ FirstPlay = 1 /\ ~pending_reset'

(* A failed play() is followed by one recreation and one more play(),      *)
(* whose failure terminates the engine; otherwise the engine is Playing    *)
(* and has sent StateChanged(Playing) once.                                *)
RetriedOnce ==
    /\ Len(Plays) = IF Plays[1].ok THEN 1 ELSE 2
    /\ Len(calls') = FirstPlay + (IF Plays[1].ok THEN 0 ELSE 2)
    /\ ~Plays[1].ok => IsRecreate(calls'[FirstPlay + 1]) /\ IsPlay(calls'[FirstPlay + 2])
    /\ IF Plays[Len(Plays)].ok
       THEN ~panicked' /\ state' = "Playing" /\ emitted' = <<Ev("StateChanged", "Playing")>>
       ELSE panicked' /\ emitted' = <<>>

(* pending_reset is set only by a seek on an open track (the Seek command, *)
(* or Previous restarting the track by seek(0)).                           *)
PendingResetOnlyBySeek ==
    (~pending_reset /\ pending_reset') =>
        last_cmd' \in {"Seek", "Previous"} /\ media_stream # <<>>

NoDeviceFound == \E c \in Range(calls') : IsRecreate(c) /\ ~c.ok

----------------------------------------------------------------------------
(* SpecRing: the ring buffer of a stream, written by the submit_frame      *)
(* calls of the playback thread and read by the callback of the platform.  *)

NextRing ==
    \/ SubmitFrame
    \/ WriteBlocking
    \/ OutputCallback
    \/ ResetStream

SpecRing == Init /\ [][NextRing]_vars

----------------------------------------------------------------------------
(* SpecLoop: the main loop of the playback thread while the controller     *)
(* sends up to MaxSent commands, at any moment; files may fail to open.    *)

NextLoop ==
    \/ Send
    \/ Recv(BOOLEAN)
    \/ IntakeDone
    \/ LoopAudio({"Frame", "Eof", "Unknown"}, BOOLEAN)
    \/ LoopBroadcast

SpecLoop == Init /\ [][NextLoop]_vars

(* the step called read_samples *)
ReadsSamples == main_loop'.frames > main_loop.frames

(* C19: the commands are handled in the order they were sent, none lost;   *)
(* an iteration of the main loop handles every command that was pending    *)
(* when it began before it decodes, decodes at most one frame, and none    *)
(* unless the state is Playing.                                            *)
C19_CommandsInOrderBeforeDecoding ==
    /\ [](main_loop.received \o commands_rx = main_loop.sent)
    /\ [](main_loop.frames <= 1)
    /\ [][ReadsSamples =>
            /\ main_loop.pc = "play_audio"
            /\ main_loop.frames = 0
            /\ state = "Playing"
            /\ commands_rx' = commands_rx
            /\ Len(main_loop.received) >= main_loop.pending
         ]_vars

(* three commands were pending when an iteration began; its command_intake *)
(* handled them in order, and its play_audio then read from the decoder    *)
C19_Witness ==
    /\ main_loop.received = <<Cmd("Queue", "B"), Cmd("Pause", "-"), Cmd("Play", "-")>>
    /\ main_loop.pending = MaxSent
    /\ main_loop.frames = 1
    /\ last_cmd = "-"
    /\ state = "Playing"
    /\ resampler # <<>>

----------------------------------------------------------------------------
(* SpecLoopFair: the main loop where every file opens, the device is there *)
(* and fails no call, and the thread, which is a thread of its own, keeps  *)
(* taking steps for as long as it has one to take.                         *)

ThreadStep ==
    \/ Recv({TRUE})
    \/ IntakeDone
    \/ LoopAudio({"Frame", "Eof"}, {TRUE})
    \/ LoopBroadcast

NextLoopFair ==
    \/ Send
    \/ ThreadStep

SpecLoopFair == Init /\ [][NextLoopFair]_vars /\ WF_vars(ThreadStep)

(* C20: every command sent is eventually taken from the channel and        *)
(* handled, and the thread never terminates.                               *)
C20_EveryCommandProcessed ==
    /\ \A n \in 1..MaxSent :
          (Len(main_loop.sent) >= n) ~> (Len(main_loop.received) >= n)
    /\ []~panicked

----------------------------------------------------------------------------
(* SpecLock: the handlers of the playback thread taken apart into the      *)
(* guards they take on the queue and the I/O calls they make, while the    *)
(* UI thread reads the queue.                                              *)

NextLock ==
    \/ LockedHandler
    \/ LockStep
    \/ UiReader

SpecLock == Init /\ [][NextLock]_vars

(* C21: the playback thread holds no guard on the queue when it makes a    *)
(* call that does I/O (open, stop, decoding, submit_frame, the stream),    *)
(* when it asks for a guard, and between two handlers; so a UI reader      *)
(* that waits for the lock waits only for the thread's next step, which    *)
(* gives the guard up.                                                     *)
C21_QueueLockNotHeldAcrossIo ==
    /\ queue_lock.steps = <<>> => queue_lock.thread = "none"
    /\ queue_lock.steps # <<>> /\ Head(queue_lock.steps) \in IoSteps \cup {"read", "write"}
          => queue_lock.thread = "none"
    /\ queue_lock.ui = "waiting" /\ queue_lock.thread = "write"
          => queue_lock.steps # <<>> /\ Head(queue_lock.steps) = "drop"

(* the end of a track with Repeating at the end of the queue: next() holds *)
(* its write guard, the UI waits, and next() has still to drop the guard,  *)
(* call jump(0), which reads the queue, drops its guard, and opens         *)
C21_Witness ==
    /\ queue_lock.thread = "write"
    /\ queue_lock.ui = "waiting"
    /\ queue_lock.steps = <<"drop", "read", "drop", "open">>

----------------------------------------------------------------------------
(* SpecCommands: the engine under the commands of the controller that     *)
(* take a path, an index or nothing, each received with its argument, and  *)
(* the ends of the tracks, with repeat off; the controller watches the     *)
(* commands that start playback at an index or an item.                    *)

InitCommands == Start(Settings, {"Jump", "JumpUnshuffled", "Play", "Queue"})

NextCommands ==
    \/ Received({Cmd(name, "-") : name \in {"Play", "Pause", "Stop", "Next", "Previous",
                                             "ClearQueue", "ToggleShuffle"}})
    \/ Received({Cmd(name, path) : name \in {"Open", "Queue"}, path \in Paths})
    \/ Received({[name |-> name, index |-> index] :
                    name \in {"Jump", "JumpUnshuffled"}, index \in 0..MaxQueue})
    \/ PlayAudio({"Eof"}, BOOLEAN)

SpecCommands == InitCommands /\ [][NextCommands]_vars

(* the path the command the step received carries *)
Arg == main_loop'.received[1].arg

(* the index the command the step received carries *)
Index == main_loop'.received[1].index

(* the step called open(path): the file is open and playing, or could not  *)
(* be opened and nothing is open                                           *)
OpenedOrFailed(path) ==
    \/ media_stream' = <<>>
    \/ /\ media_stream' # <<>> /\ media_stream'[1].path = path
       /\ state' = "Playing"
       /\ \E k \in DOMAIN emitted' : emitted'[k] = Ev("SongChanged", path)

NoChange ==
    /\ emitted' = <<>>
    /\ UNCHANGED <<state, queue, original_queue, shuffle, queue_next, repeat, media_stream,
                   stream, last_timestamp, pending_reset>>

JumpsTo(index) ==
    IF index < Len(queue)
    THEN /\ OpenedOrFailed(queue[index + 1])
         /\ queue_next' = index + 1
         /\ emitted' # <<>> /\ emitted'[Len(emitted')] = Ev("QueuePositionChanged", index)
         /\ UNCHANGED <<queue, original_queue, shuffle>>
    ELSE NoChange

(* C22: Jump(i) with i inside the queue opens queue[i], sets queue_next to *)
(* i + 1 and sends QueuePositionChanged(i), and changes nothing with i     *)
(* outside; JumpUnshuffled(i) with shuffle on and i inside the original    *)
(* queue opens the track at index i of the original queue and sets         *)
(* queue_next one past a position of that track in the queue; with         *)
(* shuffle off it does what Jump(i) does.                                  *)
C22_JumpAndJumpUnshuffled ==
    [][/\ last_cmd' = "Jump" => JumpsTo(Index)
       /\ last_cmd' = "JumpUnshuffled" /\ ~shuffle => JumpsTo(Index)
       /\ last_cmd' = "JumpUnshuffled" /\ shuffle /\ Index < Len(original_queue) =>
             /\ OpenedOrFailed(original_queue[Index + 1])
             /\ queue_next' \in 1..Len(queue)
             /\ queue[queue_next'] = original_queue[Index + 1]
             /\ UNCHANGED <<queue, original_queue, shuffle>>
      ]_vars

(* JumpUnshuffled(i) was handled with shuffle on where the shuffled queue  *)
(* has another track at index i, and the track of the original queue plays *)
C22_Witness ==
    /\ last_cmd = "JumpUnshuffled"
    /\ shuffle
    /\ main_loop.received[1].index < Len(original_queue)
    /\ queue[main_loop.received[1].index + 1] # original_queue[main_loop.received[1].index + 1]
    /\ state = "Playing"
    /\ media_stream # <<>>
    /\ media_stream[1].path = original_queue[main_loop.received[1].index + 1]

----------------------------------------------------------------------------
(* the step left path open and playing *)
Started(path) ==
    /\ media_stream' # <<>> /\ media_stream'[1].path = path
    /\ state' = "Playing"

NothingLoaded == state = "Stopped" /\ media_stream = <<>>

PlayFromStopped ==
    /\ last_cmd' = "Play" /\ NothingLoaded /\ queue # <<>> /\ media_stream' # <<>>
          => Started(queue[1]) /\ queue_next' = 1 /\ queue' = queue
    /\ last_cmd' = "Play" /\ NothingLoaded /\ queue = <<>>
          => state' = "Stopped" /\ media_stream' = <<>> /\ UNCHANGED <<queue, queue_next>>

(* C23 as claimed: in state Stopped with nothing loaded, Play with a       *)
(* non-empty queue opens index 0 and Queue(item) opens the queued item     *)
(* (where the file opens), queue_next becomes 1 and the state Playing;     *)
(* Play with an empty queue leaves the state Stopped.                      *)
C23_StoppedStartsAtOne ==
    [][/\ PlayFromStopped
       /\ last_cmd' = "Queue" /\ NothingLoaded /\ media_stream' # <<>>
             => Started(Arg) /\ queue' = Append(queue, Arg) /\ queue_next' = 1
      ]_vars

(* C23, amended: as claimed for Play; Queue(item) with nothing loaded      *)
(* opens the queued item (where the file opens), the state becomes Playing *)
(* and queue_next the position after the queued item, the new length of    *)
(* the queue, which is 1 only when the queue was empty.                    *)
C23_StoppedStartsAtQueuedItem ==
    [][/\ PlayFromStopped
       /\ last_cmd' = "Queue" /\ NothingLoaded /\ media_stream' # <<>>
             => Started(Arg) /\ queue' = Append(queue, Arg) /\ queue_next' = Len(queue) + 1
      ]_vars

(* Queue(item) was handled in state Stopped with a queue of two items: the *)
(* third item plays and queue_next is 3                                    *)
C23_Witness ==
    /\ last_cmd = "Queue"
    /\ \E k \in DOMAIN emitted : emitted[k] = Ev("SongChanged", main_loop.received[1].arg)
    /\ state = "Playing"
    /\ Len(queue) = 3
    /\ queue_next = 3
    /\ media_stream # <<>> /\ media_stream[1].path = queue[3]

----------------------------------------------------------------------------
(* C24: a frame is converted by a resampler built for the format of the    *)
(* stream the frame is submitted to, which is also the recorded format:    *)
(* after a step that read a frame from the decoder, the resampler and the  *)
(* format are those of the stream that existed when the frame was          *)
(* converted.                                                              *)
C24_ResamplerBuiltForStream ==
    [][last_cmd' = "Frame" /\ stream # <<>> =>
          /\ resampler' = <<stream[1].channels>>
          /\ format' = <<stream[1].channels>>
      ]_vars

----------------------------------------------------------------------------
(* log[i] is the SongChanged of the media stream that was open when log[j] *)
(* was sent: the last SongChanged before log[j]                            *)
SongOf(i, j) ==
    /\ i < j
    /\ log[i].type = "SongChanged"
    /\ \A k \in (i + 1)..j : log[k].type # "SongChanged"

(* C26: in the events the controller receives, a MetadataUpdate is sent    *)
(* at most once for an opened media stream, after the SongChanged of that  *)
(* stream and for its track, and is immediately followed by one            *)
(* AlbumArtUpdate; no AlbumArtUpdate is sent otherwise.                    *)
C26_MetadataOncePerStream ==
    \A j \in DOMAIN log :
      /\ log[j].type = "MetadataUpdate" =>
            /\ j < Len(log) /\ log[j + 1].type = "AlbumArtUpdate"
            /\ \E i \in DOMAIN log :
                  /\ SongOf(i, j) /\ log[i].val = log[j].val
                  /\ \A k \in (i + 1)..(j - 1) : log[k].type # "MetadataUpdate"
      /\ log[j].type = "AlbumArtUpdate" => j > 1 /\ log[j - 1].type = "MetadataUpdate"

(* the metadata of the open track was sent, its flag is consumed, and      *)
(* events were sent since                                                  *)
C26_Witness ==
    /\ \E j \in DOMAIN log :
          /\ log[j].type = "MetadataUpdate"
          /\ j + 1 < Len(log)
          /\ \A k \in (j + 1)..Len(log) : log[k].type # "SongChanged"
    /\ media_stream # <<>>
    /\ ~media_stream[1].pending_metadata_update
    /\ state = "Playing"

----------------------------------------------------------------------------
(* the step handled SetVolume(v) on a stream *)
SetVolumeTo(v) ==
    /\ last_cmd' = "SetVolume" /\ stream # <<>> /\ emitted' = <<Ev("VolumeChanged", v)>>

(* C27: the scaled volume SetVolume gives the stream is 1.0 for the volume *)
(* 1.0 and 0.0 for the volume 0.0, and of two SetVolume commands in a row  *)
(* the one with the larger volume gives the stream at least the scaled     *)
(* volume the other gave it (over the volumes of Volumes, which lie on     *)
(* both sides of the branches at 0.1 and 0.99).                            *)
C27_VolumeScaleMonotone ==
    [][/\ SetVolumeTo(100) => stream'[1].volume = Million
       /\ SetVolumeTo(0) => stream'[1].volume = 0
       /\ \A a, b \in Volumes :
             last_cmd = "SetVolume" /\ emitted = <<Ev("VolumeChanged", a)>> /\ SetVolumeTo(b)
             => /\ a <= b => stream[1].volume <= stream'[1].volume
                /\ a >= b => stream[1].volume >= stream'[1].volume
      ]_vars

(* SetVolume(0.11) was handled: the first volume of the exponential branch *)
(* gave the stream more than the 0.029575 that 0.1 gives it                *)
C27_Witness ==
    /\ last_cmd = "SetVolume"
    /\ emitted = <<Ev("VolumeChanged", 11)>>
    /\ stream # <<>>
    /\ stream[1].volume > volume_scale(10)
    /\ stream[1].volume < volume_scale(50)
    /\ last_volume = stream[1].volume

----------------------------------------------------------------------------
(* SpecVolumeDevice: the controller sets the volume to 0.05 or 1.0 while   *)
(* it opens stereo and mono files, pauses, resumes, seeks and stops and    *)
(* the audio hardware changes under the engine; it watches SetVolume and   *)
(* Open.                                                                   *)

InitVolumeDevice ==
    StartOn(Settings, Watching({"SetVolume", "Open"}), DeviceConditions({FALSE}), {MixedFiles})

NextVolumeDevice ==
    \/ Received({[name |-> "SetVolume", volume |-> v] : v \in {5, 100}})
    \/ NextDevice

SpecVolumeDevice == InitVolumeDevice /\ [][NextVolumeDevice]_vars

(* C28: a stream that exists has the volume last_volume, which is 1.0      *)
(* until a SetVolume is applied to a stream and from then on the scaled    *)
(* value of the SetVolume applied last, whatever stream replaced the one   *)
(* it was applied to.                                                      *)
C28_StreamVolumeIsLastVolume ==
    /\ [](stream # <<>> => stream[1].volume = last_volume)
    /\ [](last_volume # Million => \E v \in Volumes : IsScaled(v, last_volume))
    /\ [][IF last_cmd' = "SetVolume" /\ stream # <<>>
          THEN IsScaled(main_loop'.received[1].volume, last_volume')
          ELSE last_volume' = last_volume
         ]_vars

(* Open met a stream of the wrong channel count and recreated it; the new  *)
(* stream has the volume a SetVolume(0.05) before gave the old one         *)
C28_Witness ==
    /\ last_cmd = "Open"
    /\ \E k \in DOMAIN calls : calls[k].op = "recreate_stream" /\ calls[k].ok
    /\ stream # <<>>
    /\ stream[1].channels = Mono
    /\ stream[1].volume = volume_scale(5)
    /\ state = "Playing"

----------------------------------------------------------------------------
(* SpecReplace: the engine under ReplaceQueue with every list, the         *)
(* commands that take nothing and the ends of the tracks, with repeat      *)
(* off; the controller watches ReplaceQueue.                               *)
InitReplace == Start(Settings, {"ReplaceQueue"})

NextReplace ==
    \/ Received({[name |-> "ReplaceQueue", paths |-> paths] : paths \in Lists})
    \/ Received({Cmd(name, "-") : name \in {"Play", "Pause", "Stop", "Next", "Previous",
                                              "ClearQueue", "ToggleShuffle"}})
    \/ PlayAudio({"Eof"}, BOOLEAN)

SpecReplace == InitReplace /\ [][NextReplace]_vars

(* the list the command the step received carries *)
Items == main_loop'.received[1].paths

(* C25: after ReplaceQueue(items) with items the queue is items, or with   *)
(* shuffle on an arrangement of items with items as the original queue,    *)
(* the first item of the queue is opened and queue_next is 1; with no      *)
(* items the queue is empty and queue_next is 0.                           *)
C25_ReplaceQueue ==
    [][last_cmd' = "ReplaceQueue" =>
          /\ shuffle' = shuffle
          /\ IF shuffle
             THEN IsPermutation(queue', Items) /\ original_queue' = Items
             ELSE queue' = Items
          /\ IF Items # <<>>
             THEN queue_next' = 1 /\ OpenedOrFailed(queue'[1])
             ELSE queue_next' = 0
      ]_vars

(* ReplaceQueue(<<A, B>>) was handled with shuffle on: the queue is        *)
(* <<B, A>>, B plays and the original queue is <<A, B>>                    *)
C25_Witness ==
    /\ last_cmd = "ReplaceQueue"
    /\ shuffle
    /\ main_loop.received[1].paths = <<"A", "B">>
    /\ queue = <<"B", "A">>
    /\ original_queue = <<"A", "B">>
    /\ queue_next = 1
    /\ state = "Playing"
    /\ media_stream # <<>> /\ media_stream[1].path = "B"

----------------------------------------------------------------------------
(* C29: whenever the state is Playing or Paused a media stream is open: a  *)
(* failed open never leaves the engine Playing or Paused with nothing      *)
(* open.                                                                   *)
C29_PlayingOrPausedHasMediaStream ==
    state \in {"Playing", "Paused"} => media_stream # <<>>

----------------------------------------------------------------------------
(* C30: handling Next or the end of a track never indexes the queue out    *)
(* of bounds: whenever next() runs with repeat = RepeatingOne, queue_next  *)
(* is at least 1 (and at most the length of the queue), so that            *)
(* queue[queue_next - 1] exists.                                           *)
C30_NextIndexInBounds ==
    [][(last_cmd' \in {"Next", "Eof", "DecodeFatal"} /\ repeat = "RepeatingOne") =>
          /\ queue_next >= 1
          /\ queue_next <= Len(queue)
          /\ ~panicked'
      ]_vars

----------------------------------------------------------------------------
(* SpecToEnd: the main loop with the always_repeat setting on, where every *)
(* file opens, the device fails no call and a decoder that reported Eof    *)
(* has nothing more to read; the controller sends up to MaxSent commands   *)
(* and watches the ends of the tracks; the thread keeps taking steps.      *)

InitToEnd == Start(SettingsRepeat, {"Eof"})

ThreadToEnd ==
    \/ Recv({TRUE})
    \/ IntakeDone
    \/ LoopAudioToEnd({"Frame", "Eof"})
    \/ LoopBroadcast

NextToEnd ==
    \/ Controller({Cmd("Play", "-"), Cmd("Pause", "-"), Cmd("Stop", "-"), Cmd("Next", "-"),
                   Cmd("Open", "A"), Cmd("Queue", "B"), Cmd("ClearQueue", "-")})
    \/ ThreadToEnd

SpecToEnd == InitToEnd /\ [][NextToEnd]_vars /\ WF_vars(ThreadToEnd)

(* a track is open that has more to read *)
TrackToRead == media_stream # <<>> /\ ~media_stream[1].eof

(* C31: after an end of track is observed, the engine eventually opens a   *)
(* track or becomes Stopped; it does not stay Playing on a decoder that    *)
(* has nothing more to read.                                               *)
C31_EndOfTrackLeadsOn ==
    (last_cmd = "Eof") ~> (TrackToRead \/ state = "Stopped")

----------------------------------------------------------------------------
(* C32: whenever the engine submits a frame to a stream, play() has been   *)
(* called with success on that stream since it was opened, reset or        *)
(* paused: the stream a play_audio call last submitted its frame to (the   *)
(* recreated one after a failed submit_frame) is running.                  *)
C32_SubmitsToStartedStream ==
    [][(last_cmd' = "Frame" /\ Submits # <<>> /\ stream' # <<>>) => stream'[1].playing]_vars

----------------------------------------------------------------------------
(* C33: JumpUnshuffled(i) with shuffle on and i outside the original queue *)
(* is ignored like a Jump(i) outside the queue: it changes nothing and the *)
(* engine goes on.                                                         *)
C33_JumpUnshuffledOutsideIgnored ==
    [][(last_cmd' = "JumpUnshuffled" /\ shuffle /\ Index >= Len(original_queue)) =>
          NoChange /\ ~panicked'
      ]_vars

----------------------------------------------------------------------------
(* SpecModels: the engine under the transport commands, Open, Queue and    *)
(* the navigating commands, with the always_repeat setting on or off, and  *)
(* a controller that keeps its models up to date with the events of the    *)
(* engine.                                                                 *)

SettingsAny == [always_repeat : BOOLEAN, prev_track_jump_first : {FALSE}]

InitModels ==
    StartOn(SettingsAny, [Watching({}) EXCEPT !.models = TRUE], {SoundDevice}, {StereoFiles})

NextModels ==
    \/ Play(BOOLEAN)
    \/ Pause
    \/ TogglePlayPause
    \/ Open
    \/ Queue
    \/ NextCmd
    \/ Previous
    \/ ClearQueue
    \/ Jump
    \/ Stop
    \/ ToggleShuffle
    \/ SetRepeat
    \/ PlayAudio({"Eof", "DecodeFatal", "Unknown"}, BOOLEAN)

SpecModels == InitModels /\ [][NextModels]_vars

(* C34: whenever a queue item is current (queue_next >= 1), the position   *)
(* of the controller's queue model, the value of the most recent           *)
(* QueuePositionChanged event, is queue_next - 1.                          *)
C34_QueuePositionFollowsEngine ==
    queue_next >= 1 => models.position = queue_next - 1

(* C35: the repeating of the controller's playback info, the value of the  *)
(* most recent RepeatChanged event (the setting's mode before any), is the *)
(* repeat mode of the engine, for every SetRepeat request and both values  *)
(* of always_repeat.                                                       *)
C35_RepeatingFollowsEngine ==
    models.repeating = repeat

(* C36: the playback_state of the controller's playback info, the value of *)
(* the most recent StateChanged event (Stopped before any), is the state   *)
(* of the engine.                                                          *)
C36_PlaybackStateFollowsEngine ==
    models.playback_state = state

(* the second item of the queue is open and paused, and the controller has *)
(* it paused                                                               *)
C36_Witness ==
    /\ state = "Paused"
    /\ models.playback_state = "Paused"
    /\ queue_next = 2
    /\ media_stream # <<>> /\ media_stream[1].path = queue[2]

----------------------------------------------------------------------------
(* C37: in every reachable state queue_next is at most the length of the   *)
(* queue, so that the index queue_next - 2 of Previous (taken when         *)
(* queue_next > 1) and the slice queue_next..len of ToggleShuffle are in   *)
(* bounds.                                                                 *)
C37_QueueNextWithinQueue ==
    /\ queue_next <= Len(queue)
    /\ queue_next > 1 => queue_next - 2 < Len(queue)

(* the last item of a full shuffled queue is current *)
C37_Witness ==
    /\ queue_next = MaxQueue
    /\ Len(queue) = MaxQueue
    /\ shuffle
    /\ state = "Playing"
    /\ media_stream # <<>> /\ media_stream[1].path = queue[MaxQueue]

----------------------------------------------------------------------------
====
